---- MODULE Spec2Model ----
(***************************************************************************)
(* Model of the version-directory resolver and the archive downloader of   *)
(* the zed-csharp extension (src/src/binary_manager.rs, with the two tool  *)
(* configurations of src/src/version_config.rs and the path normalisation  *)
(* of src/src/path_utils.rs).                                              *)
(*                                                                         *)
(* Strings that the code compares, cuts or joins (directory names,         *)
(* versions, release tags, paths) are sequences of byte values, so that    *)
(* starts_with, trim_start_matches, format! and the string order of Rust   *)
(* are computed and not assumed.  Error messages are sequences of words.   *)
(***************************************************************************)
EXTENDS Integers, Sequences, FiniteSets, TLC

VARIABLES
    fs,                    \* the working directory: directory name -> (file name -> written completely?)
    os,                    \* zed::current_platform().0, fixed for the process
    arch,                  \* zed::current_platform().1, fixed for the process
    cfg_windows,           \* the build has #[cfg(windows)], fixed for the process
    executable,            \* the files (directory, name) whose mode has an execute bit
    ext,                   \* the CsharpExtension of csharp.rs and what its last call did
    razor,                 \* the get_razor_components call of a RazorSupport (command_builder.rs)
    cached_version_dir,    \* BinaryManager.cached_version_dir (Option as a set of at most one path)
    pc,                    \* position inside get_version_dir / download_with_retry
    caller,                \* who runs download_with_retry: "get_version_dir" or "direct"
    config,                \* the VersionDirConfig of the running call (its prefix names it)
    language_server_id,    \* TRUE when the call was given Some(language_server_id)
    latest_local_version,  \* Option
    github_version,        \* Option
    version,
    version_dir,
    destination,           \* download_with_retry's destination
    max_retries,           \* download_with_retry's max_retries
    attempt,               \* download_with_retry's attempt
    poll_count,
    has_content,
    result,                \* what the last finished call returned
    calls,                 \* number of get_version_dir calls started
    h,                     \* observations of the running (or last finished) call
    prev                   \* observations kept of the call before it

vars == <<fs, os, arch, cfg_windows, executable, ext, razor, cached_version_dir, pc, caller,
          config, language_server_id, latest_local_version, github_version, version, version_dir, destination,
          max_retries, attempt, poll_count, has_content, result, calls, h, prev>>

\* what zed::current_platform() and the build target are: they never change
build == <<os, arch, cfg_windows>>

\* the BinaryManager of binary_manager.rs, the position of its call and what is
\* observed of it
manager == <<cached_version_dir, pc, caller, config, language_server_id,
             latest_local_version, github_version, version, version_dir, destination,
             max_retries, attempt, poll_count, has_content, result, calls, h, prev>>

(***************************************************************************)
(* Bounds of the model.                                                    *)
(***************************************************************************)
MaxCalls == 2          \* get_version_dir calls in one behaviour
MaxRetriesArg == 4     \* greatest max_retries a direct download_with_retry call is given
MaxCallsFair == 1      \* get_version_dir calls in one behaviour that is checked for termination
MaxExtCalls == 3       \* calls of the CsharpExtension of csharp.rs in one behaviour

(***************************************************************************)
(* Strings.                                                                *)
(***************************************************************************)
\* "netcoredbg"
netcoredbg == <<110, 101, 116, 99, 111, 114, 101, 100, 98, 103>>
\* "vscode-csharp"
vscode_csharp == <<118, 115, 99, 111, 100, 101, 45, 99, 115, 104, 97, 114, 112>>
Dash == <<45>>         \* "-"
Slash == <<47>>        \* "/"
\* "10.0", "9.0": version strings; "v9.0", "10.0": the release tags they come from
V10 == <<49, 48, 46, 48>>
V9 == <<57, 46, 48>>
TagV9 == <<118>> \o V9
Versions == {V10, V9}
Tags == {TagV9, V10}
\* std::env::current_dir(): "/w"
Cwd == <<47, 119>>

None == {}
Some(x) == {x}
Unwrap(o) == CHOOSE x \in o : TRUE

Min(a, b) == IF a < b THEN a ELSE b

StartsWith(s, p) == Len(p) <= Len(s) /\ SubSeq(s, 1, Len(p)) = p

\* Rust's Ord for str: bytewise lexicographic order
StrLess(a, b) ==
    \E i \in 1..(Min(Len(a), Len(b)) + 1) :
        /\ \A j \in 1..(i - 1) : a[j] = b[j]
        /\ \/ i > Len(a) /\ i <= Len(b)
           \/ i <= Len(a) /\ i <= Len(b) /\ a[i] < b[i]

StrGreater(a, b) == StrLess(b, a)

RECURSIVE TrimStartMatches(_, _)
\* str::trim_start_matches(pat): removes every leading repetition of pat
TrimStartMatches(s, p) ==
    IF p # <<>> /\ StartsWith(s, p)
    THEN TrimStartMatches(SubSeq(s, Len(p) + 1, Len(s)), p)
    ELSE s

(***************************************************************************)
(* The two tool configurations (version_config.rs).                        *)
(***************************************************************************)
netcoredbg_config ==
    [prefix |-> netcoredbg, github_repo |-> "marcptrs/netcoredbg",
     binary_name_for_logging |-> "netcoredbg"]

vscode_csharp_config ==
    [prefix |-> vscode_csharp, github_repo |-> "dotnet/vscode-csharp",
     binary_name_for_logging |-> "Roslyn"]

Configs == {netcoredbg_config, vscode_csharp_config}
Architectures == {"X8664", "X86"}
OperatingSystems == {"Linux", "Windows"}

\* (config.get_platform_string)(): TRUE when it returns Ok.  netcoredbg names every
\* platform; vscode-csharp has no name for the X86 architecture.
get_platform_string(c, a) ==
    IF c.prefix = netcoredbg THEN TRUE ELSE a # "X86"

\* (config.get_download_url)(version, platform): TRUE when it returns Ok.  netcoredbg
\* asks the release catalog for the release's assets (needs the network and an asset
\* for the platform); vscode-csharp formats the URL from its arguments.
get_download_url(c, net, assetFound) ==
    IF c.prefix = netcoredbg THEN net /\ assetFound ELSE TRUE

\* the file name that (config.get_binary_path)(version_dir) appends to version_dir
BinaryFile(c) ==
    IF c.prefix = netcoredbg
    THEN IF os = "Windows" THEN "netcoredbg.exe" ELSE "netcoredbg"
    ELSE IF os = "Windows"
         THEN "extension/.roslyn/Microsoft.CodeAnalysis.LanguageServer.exe"
         ELSE "extension/.roslyn/Microsoft.CodeAnalysis.LanguageServer"

\* (config.get_binary_path)(version_dir), as the pair <<directory, file below it>>
get_binary_path(c, dir) == <<dir, BinaryFile(c)>>

\* format!("{}-{}", config.prefix, version)
VersionDirName(c, v) == c.prefix \o Dash \o v

(***************************************************************************)
(* The filesystem: fs maps each directory of the working directory to the  *)
(* files below it; a file maps to TRUE when its bytes were written fully.  *)
(***************************************************************************)
EmptyDir == [x \in {} |-> TRUE]

\* the name, below the working directory, that a path denotes
Resolve(path) ==
    IF StartsWith(path, Slash)
    THEN IF StartsWith(path, Cwd \o Slash)
         THEN SubSeq(path, Len(Cwd) + 2, Len(path))
         ELSE <<>>
    ELSE path

\* fs::metadata(path).map_or(false, |stat| stat.is_dir())
IsDir(f, path) == Resolve(path) \in DOMAIN f

\* fs::metadata(path).map_or(false, |stat| stat.is_file()) for a file below a directory
IsFile(f, bp) == IsDir(f, bp[1]) /\ bp[2] \in DOMAIN f[Resolve(bp[1])]

\* fs::remove_dir_all(dir).ok()
RemoveDirAll(f, dir) == [n \in DOMAIN f \ {dir} |-> f[n]]

\* fs::create_dir_all(dir)
CreateDirAll(f, dir) ==
    IF dir \in DOMAIN f
    THEN f
    ELSE [n \in DOMAIN f \cup {dir} |-> IF n = dir THEN EmptyDir ELSE f[n]]

\* the directory dir with the files of w written (File::create truncates a file that
\* exists, and creates a new file with mode 0o666: no code of extract_zip gives a file
\* an execute bit, so the extraction leaves `executable` as it is)
WriteFiles(f, dir, w) ==
    [f EXCEPT ![dir] = [n \in DOMAIN f[dir] \cup DOMAIN w |->
                            IF n \in DOMAIN w THEN w[n] ELSE f[dir][n]]]

\* path_utils::normalize_path_to_absolute of a path without drive letter and without
\* backslash: the Windows branch (line 10-42) and the other one (line 43-65) give the
\* same path for it
normalize_path_to_absolute(relative_path) ==
    IF StartsWith(relative_path, Slash)
    THEN relative_path
    ELSE Cwd \o Slash \o relative_path

(***************************************************************************)
(* The local scan and the choice of the version.                           *)
(***************************************************************************)
\* variant: the scan without the test of the prefix
IsLocalVersionEntryAny(f, name, c) == IsDir(f, name)

\* the test that makes a working-directory entry a local version (line 238-239)
IsLocalVersionEntry(f, name, c) == StartsWith(name, c.prefix) /\ IsDir(f, name)

RECURSIVE ScanEntries(_, _, _, _)
\* the loop over read_dir("."), from the entries still to visit and the latest so far
ScanEntries(f, names, c, latest) ==
    IF names = {}
    THEN latest
    ELSE LET name == CHOOSE n \in names : TRUE
             ver == TrimStartMatches(name, c.prefix \o Dash)
         IN  IF /\ IsLocalVersionEntry(f, name, c)
                /\ (latest = None \/ StrGreater(ver, Unwrap(latest)))
             THEN ScanEntries(f, names \ {name}, c, Some(ver))
             ELSE ScanEntries(f, names \ {name}, c, latest)

\* release.version.trim_start_matches('v')
ReleaseVersion(tag) == TrimStartMatches(tag, <<118>>)

\* variant: the comparison the other way round
UseGithubVersionReversed(gh_ver, local) == local = None \/ StrLess(gh_ver, Unwrap(local))

\* whether the release version replaces the local one (line 272-274)
UseGithubVersion(gh_ver, local) == local = None \/ StrGreater(gh_ver, Unwrap(local))

\* variant: no fallback to the local version when the catalog gives none
SelectVersionNeedsCatalog(gh, local) ==
    IF gh # None
    THEN IF local = None \/ StrGreater(Unwrap(gh), Unwrap(local)) THEN gh ELSE local
    ELSE None

\* the version to use, None when the call fails for want of one (line 271-288)
SelectVersion(gh, local) ==
    IF gh # None
    THEN IF UseGithubVersion(Unwrap(gh), local) THEN gh ELSE local
    ELSE local

(***************************************************************************)
(* Error messages, as sequences of words.  NoErr stands for Ok(()).        *)
(***************************************************************************)
NoErr == <<>>
ErrHttpFetch == <<"HTTP", "fetch", "failed">>
ErrEmptyBody == <<"downloaded", "file", "is", "empty">>
ErrOpenZip == <<"failed", "to", "open", "zip", "archive">>
ErrCreateDirectory(name) == <<"failed", "to", "create", "directory", name>>
ErrCreateFile(name) == <<"failed", "to", "create", "file", name>>
ErrCopyFile(name) == <<"failed", "to", "copy", "file", name>>
ErrCreateDestination == <<"failed", "to", "create", "destination", "directory">>
ErrReadZipEntry == <<"failed", "to", "read", "zip", "entry">>
ErrCreateParent(name) == <<"failed", "to", "create", "parent", "directory", "for", name>>
ErrRetriesExhausted == <<"download", "retries", "exhausted">>
\* config.prefix as one word of a message
PrefixWord(c) == IF c.prefix = netcoredbg THEN "netcoredbg" ELSE "vscode-csharp"
ErrNoVersion(c) ==
    <<"No", PrefixWord(c), "version", "found", "locally", "and", "cannot", "check",
      "GitHub", "for", "updates">>
ErrPlatform == <<"failed", "to", "determine", "platform">>
ErrDownloadUrl == <<"failed", "to", "fetch", "netcoredbg", "release">>
ErrInvalidPEHeader(c) ==
    <<IF c.prefix = netcoredbg THEN "netcoredbg" ELSE "Roslyn", "binary", "has", "invalid",
      "PE", "header", "signature">>
ErrListWorkingDirectory == <<"failed", "to", "list", "working", "directory">>
ErrLoadDirectoryEntry == <<"failed", "to", "load", "directory", "entry">>
ErrNotFoundAfterExtraction(c) ==
    <<"failed", "to", "download", PrefixWord(c), "binary", "not", "found", "after",
      "extraction">>

\* str::contains for one word of a message: the pattern is a substring of the word
WordContains(word, pat) == word = pat \/ (word = "downloaded" /\ pat = "download")

\* error_str.contains(pat) for a pattern of one word
MsgContains(msg, pat) == \E i \in 1..Len(msg) : WordContains(msg[i], pat)

\* error_str.contains(pat) for a pattern of several words
MsgContainsPhrase(msg, phrase) ==
    \E i \in 1..Len(msg) :
        /\ i + Len(phrase) - 1 <= Len(msg)
        /\ SubSeq(msg, i, i + Len(phrase) - 1) = phrase

\* variant: the classification without its last pattern, "failed"
is_retryableFourPatterns(error_str) ==
    \/ \E i \in 1..Len(error_str) :
          /\ i + 3 <= Len(error_str)
          /\ SubSeq(error_str, i, i + 3) = <<"unexpected", "end", "of", "file">>
    \/ \E i \in 1..Len(error_str) : error_str[i] \in {"extraction", "download", "downloaded"}
    \/ \E i \in 1..Len(error_str) :
          /\ i + 1 <= Len(error_str)
          /\ SubSeq(error_str, i, i + 1) = <<"incomplete", "write">>

\* is_retryable (line 177-181)
is_retryable(error_str) ==
    \/ MsgContainsPhrase(error_str, <<"unexpected", "end", "of", "file">>)
    \/ MsgContains(error_str, "extraction")
    \/ MsgContains(error_str, "download")
    \/ MsgContainsPhrase(error_str, <<"incomplete", "write">>)
    \/ MsgContains(error_str, "failed")

(***************************************************************************)
(* HTTP responses and archives.                                            *)
(***************************************************************************)
LibEntry == [name |-> "lib.dll", is_dir |-> FALSE]
DirEntry == [name |-> "extension", is_dir |-> TRUE]
EvilEntry == [name |-> "../../evil", is_dir |-> FALSE]
BinaryEntry(c) == [name |-> BinaryFile(c), is_dir |-> FALSE]

\* the archives a download of the tool may deliver: the complete one, and one that
\* lacks the tool's binary and has an entry that leaves the destination
Archives(c) == { <<LibEntry, BinaryEntry(c)>>, <<EvilEntry, DirEntry>> }

EmptyBody == [kind |-> "empty", entries |-> <<>>]
GarbageBody == [kind |-> "bytes", entries |-> <<>>]
ZipBody(a) == [kind |-> "zip", entries |-> a]

\* what http_client::fetch can answer
Responses(c) ==
    {[ok |-> FALSE, body |-> EmptyBody]} \cup
    {[ok |-> TRUE, body |-> b] :
        b \in {EmptyBody, GarbageBody} \cup {ZipBody(a) : a \in Archives(c)}}

\* where an I/O operation of the extraction fails: at entry `at` (0: nowhere), in `op`
NoFault == [at |-> 0, op |-> "none"]
Faults == {NoFault} \cup {[at |-> i, op |-> o] : i \in 1..2, o \in {"create", "copy"}}

\* the faults that change what the extraction of a body does
FaultsOf(body) ==
    {ft \in Faults :
        \/ ft = NoFault
        \/ /\ body.kind = "zip"
           /\ ft.at <= Len(body.entries)
           /\ body.entries[ft.at].name # "../../evil"
           /\ (body.entries[ft.at].is_dir => ft.op = "create")}

\* what one attempt can meet: a response and a fault of the extraction.  A direct
\* call of download_with_retry is tried with all of them; an install is tried with
\* a transport failure, a body that is no archive, each archive, and a binary whose
\* copy fails
Deliveries(c, who) ==
    LET all == {[resp |-> r, fault |-> ft] : r \in Responses(c), ft \in Faults}
    IN  {d \in all :
            /\ d.fault \in FaultsOf(d.resp.body)
            /\ d.resp.ok => d.fault.at = 0 \/ d.resp.body.kind = "zip"
            /\ who # "direct" =>
                  /\ d.resp.ok => d.resp.body.kind # "empty"
                  /\ d.fault \in {NoFault, [at |-> 2, op |-> "copy"]}}

\* variant: the body is returned without the test that it is not empty
download_file_httpAnyBody(resp) == IF ~resp.ok THEN ErrHttpFetch ELSE NoErr

\* download_file_http: the error it returns, NoErr when it returns the body
download_file_http(resp) ==
    IF ~resp.ok THEN ErrHttpFetch
    ELSE IF resp.body.kind = "empty" THEN ErrEmptyBody
    ELSE NoErr

\* variant: the stored name is used as it is
enclosed_nameUnchecked(e) == Some(e.name)

\* ZipFile::enclosed_name: None for a path that leaves the destination
enclosed_name(e) == IF e.name = "../../evil" THEN None ELSE Some(e.name)

RECURSIVE ExtractEntriesLenient(_, _, _, _, _)
\* variant: the loop goes on with the next entry after an I/O failure and returns
\* the error at its end
ExtractEntriesLenient(f, dest, entries, i, fault) ==
    IF i > Len(entries)
    THEN [fs |-> f, err |-> NoErr]
    ELSE LET e == entries[i]
             rest == ExtractEntriesLenient(f, dest, entries, i + 1, fault)
         IN  IF e.name = "../../evil" \/ e.name = ""
             THEN rest
             ELSE IF fault.at = i
             THEN [fs |-> rest.fs,
                   err |-> IF e.is_dir THEN <<"failed", "to", "create", "directory", e.name>>
                           ELSE IF fault.op = "create"
                           THEN <<"failed", "to", "create", "file", e.name>>
                           ELSE <<"failed", "to", "copy", "file", e.name>>]
             ELSE ExtractEntriesLenient(
                      [f EXCEPT ![dest] = [n \in DOMAIN @ \cup {e.name} |->
                                              IF n = e.name THEN TRUE ELSE @[n]]],
                      dest, entries, i + 1, fault)

RECURSIVE ExtractEntries(_, _, _, _, _)
\* the loop of extract_zip from entry i on: the filesystem it leaves and its error
ExtractEntries(f, dest, entries, i, fault) ==
    IF i > Len(entries)
    THEN [fs |-> f, err |-> NoErr]
    ELSE LET e == entries[i]
             name == enclosed_name(e)
         IN  IF name = None \/ name = Some("")
             THEN ExtractEntries(f, dest, entries, i + 1, fault)
             ELSE IF fault.at = i /\ e.is_dir
             THEN [fs |-> f, err |-> ErrCreateDirectory(e.name)]
             ELSE IF fault.at = i /\ fault.op = "create"
             THEN [fs |-> f, err |-> ErrCreateFile(e.name)]
             ELSE IF fault.at = i
             THEN [fs |-> WriteFiles(f, dest, [n \in {e.name} |-> FALSE]),
                   err |-> ErrCopyFile(e.name)]
             ELSE ExtractEntries(WriteFiles(f, dest, [n \in {e.name} |-> TRUE]),
                                 dest, entries, i + 1, fault)

\* extract_zip(zip_data, destination)
extract_zip(f, dest, body, fault) ==
    LET f1 == CreateDirAll(f, dest)
    IN  IF body.kind # "zip"
        THEN [fs |-> f1, err |-> ErrOpenZip]
        ELSE ExtractEntries(f1, dest, body.entries, 1, fault)

\* variant: the destination is left as the failed extraction left it
CleanUpBeforeRetryNothing(f, dest) == f

\* the cleanup before a retry (line 188-191)
CleanUpBeforeRetry(f, dest) == CreateDirAll(RemoveDirAll(f, dest), dest)

\* variant: the loop gives up one attempt early
DownloadAttemptStepOffByOne(f, dest, a, n, resp, fault) ==
    LET dlErr == download_file_http(resp)
        x == extract_zip(f, dest, resp.body, fault)
    IN  IF dlErr # NoErr
        THEN [fs |-> f, end |-> IF a + 1 < n THEN "continue" ELSE "err", err |-> dlErr,
              outcome |-> "download_failed", cleaned |-> FALSE]
        ELSE IF x.err = NoErr
        THEN [fs |-> x.fs, end |-> "ok", err |-> NoErr, outcome |-> "ok", cleaned |-> FALSE]
        ELSE IF is_retryable(x.err) /\ a + 1 < n
        THEN [fs |-> CleanUpBeforeRetry(x.fs, dest), end |-> "continue", err |-> x.err,
              outcome |-> "extract_failed", cleaned |-> TRUE]
        ELSE [fs |-> x.fs, end |-> "err", err |-> x.err, outcome |-> "extract_failed",
              cleaned |-> FALSE]

\* variant: a failed download always continues the loop, so that the last one ends in
\* the error after the loop
DownloadAttemptStepExhausted(f, dest, a, n, resp, fault) ==
    LET dlErr == download_file_http(resp)
        x == extract_zip(f, dest, resp.body, fault)
    IN  IF dlErr # NoErr
        THEN [fs |-> f, end |-> IF a < n THEN "continue" ELSE "err",
              err |-> IF a < n THEN dlErr ELSE ErrRetriesExhausted,
              outcome |-> "download_failed", cleaned |-> FALSE]
        ELSE IF x.err = NoErr
        THEN [fs |-> x.fs, end |-> "ok", err |-> NoErr, outcome |-> "ok", cleaned |-> FALSE]
        ELSE IF is_retryable(x.err) /\ a < n
        THEN [fs |-> CleanUpBeforeRetry(x.fs, dest), end |-> "continue", err |-> x.err,
              outcome |-> "extract_failed", cleaned |-> TRUE]
        ELSE [fs |-> x.fs, end |-> "err", err |-> x.err, outcome |-> "extract_failed",
              cleaned |-> FALSE]

\* one iteration of the loop of download_with_retry, in which attempt becomes a:
\* what it leaves on disk, how it ends ("continue", "ok" or "err") and what it did
DownloadAttemptStep(f, dest, a, n, resp, fault) ==
    LET dlErr == download_file_http(resp)
        x == extract_zip(f, dest, resp.body, fault)
    IN  IF dlErr # NoErr
        THEN [fs |-> f, end |-> IF a < n THEN "continue" ELSE "err", err |-> dlErr,
              outcome |-> "download_failed", cleaned |-> FALSE]
        ELSE IF x.err = NoErr
        THEN [fs |-> x.fs, end |-> "ok", err |-> NoErr, outcome |-> "ok", cleaned |-> FALSE]
        ELSE IF is_retryable(x.err) /\ a < n
        THEN [fs |-> CleanUpBeforeRetry(x.fs, dest), end |-> "continue", err |-> x.err,
              outcome |-> "extract_failed", cleaned |-> TRUE]
        ELSE [fs |-> x.fs, end |-> "err", err |-> x.err, outcome |-> "extract_failed",
              cleaned |-> FALSE]

(***************************************************************************)
(* Program constants.                                                      *)
(***************************************************************************)
\* variant: one attempt more than the call of line 345 asks for
InstallAttemptsOneMore == 3 + 1

InstallAttempts == 3   \* the max_retries get_version_dir passes to download_with_retry
max_polls == 50

(***************************************************************************)
(* Observations of one call, kept for the properties (no code reads them). *)
(***************************************************************************)
NoResult == [kind |-> "none", path |-> <<>>, err |-> NoErr]
Ok(path) == [kind |-> "Ok", path |-> path, err |-> NoErr]
Err(e) == [kind |-> "Err", path |-> <<>>, err |-> e]

\* the answers of the environment that a call used, when they are recorded: the
\* release (rel), the catalog and asset of the URL resolver (url), what each attempt
\* met (ds), the delay of the binary (delay); rel, url and delay are empty until used
NoInputs == [rel |-> {}, url |-> {}, ds |-> <<>>, delay |-> {}]

FreshHistory(f, cache) ==
    [fs0 |-> f,            \* the filesystem when the call began
     cache0 |-> cache,     \* the cache when the call began
     fsEnd |-> f,          \* the filesystem when the call returned
     queries |-> 0,        \* release-catalog queries made
     catalogOk |-> FALSE,  \* a release-catalog query was answered
     fetches |-> 0,        \* HTTP fetches made
     resolved |-> {},      \* the resolvers of the config that were called
     removed |-> {},       \* directories removed
     created |-> {},       \* directories created
     cleanups |-> 0,       \* cleanups of the destination between two attempts
     statuses |-> <<>>,    \* installation statuses reported, in order
     corrupt |-> FALSE,    \* the chosen directory existed without its binary
     dest0 |-> None,       \* the destination's files when download_with_retry began
     dlFailures |-> 0,     \* attempts of download_with_retry whose download failed
     dlErr |-> NoErr,      \* the error of the last failed download
     last |-> "none",      \* how the latest attempt of download_with_retry went
     checks |-> 0,         \* checks of the binary's existence after the extraction
     pe |-> None,          \* what the check of the executable header met
     listing |-> "none",   \* how the listing of the old versions went
     body |-> None,        \* the body that the successful attempt extracted
     traced |-> FALSE,     \* whether the answers of the environment are recorded
     inputs |-> NoInputs,
     dl |-> "none"]        \* how download_with_retry returned: "none", "Ok", "Err"

\* variant: no installation status is ever reported
ReportNothing(hist, ls, status) == hist

\* zed::set_language_server_installation_status, when a language server id was given
Report(hist, ls, status) ==
    IF ls THEN [hist EXCEPT !.statuses = Append(@, status)] ELSE hist

\* variant: the cached absolute path looked up as a name of the working directory
CacheHitUnresolved(f, cache) == cache # None /\ Unwrap(cache) \in DOMAIN f

\* an answer of the environment is recorded
Record(hist, k, v) == IF hist.traced THEN [hist EXCEPT !.inputs[k] = v] ELSE hist

\* variant: a cached path is used without the test that it is a directory
CacheHitAnyPath(f, cache) == cache # None

\* variant: the directory is cached as it was chosen, relative to the working directory
CachedPathRelative(abs) == Some(Resolve(abs))

\* self.cached_version_dir = Some(absolute_version_dir.clone()) (line 310, 449)
CachedPath(abs) == Some(abs)

\* the cache is usable: it holds a path and the path is a directory (line 220-221)
CacheHit(f, cache) == cache # None /\ IsDir(f, Unwrap(cache))

\* variant: the test that spares the new directory is inverted
OldVersionsInverted(f, c, keep) ==
    {n \in DOMAIN f : StartsWith(n, c.prefix \o Dash) /\ n = keep}

\* the old versions the cleanup removes (line 431-437)
OldVersions(f, c, keep) ==
    {n \in DOMAIN f : StartsWith(n, c.prefix \o Dash) /\ n # keep}

RemoveOldVersions(f, c, keep) ==
    [n \in DOMAIN f \ OldVersions(f, c, keep) |-> f[n]]

(***************************************************************************)
(* Initial states: a process that has just created its BinaryManager, in a *)
(* working directory that holds complete installs of earlier runs.         *)
(***************************************************************************)
CompleteInstall(c) == [n \in {"lib.dll", BinaryFile(c)} |-> TRUE]

\* the versions of a tool that earlier runs may have installed
InstalledVersions(c) == IF c.prefix = netcoredbg THEN Versions ELSE {}

InstallNames == {VersionDirName(c, v) : c \in Configs, v \in Versions}

InitialNames == UNION {{VersionDirName(c, v) : v \in InstalledVersions(c)} : c \in Configs}

ConfigOf(name) == CHOOSE c \in Configs : StartsWith(name, c.prefix \o Dash)

\* RazorSupport::new (command_builder.rs line 121-123) for the install of version
\* 9.0, before any call: pc is the position of the get_razor_components call,
\* available the answer of its is_razor_available, components the paths it has
\* looked up since, outcome how the last call ended, tampered whether a component
\* file was deleted since the last call began
NewRazorSupport ==
    [version_dir |-> VersionDirName(vscode_csharp_config, V9), pc |-> "idle",
     available |-> FALSE, components |-> <<>>, outcome |-> "none", tampered |-> FALSE]

\* no call of get_dap_binary (of dap_request_kind) so far
NoDapCall == [adapter |-> "none", config |-> <<>>, kind |-> "none", request |-> "none"]

\* CsharpExtension::new (csharp.rs line 690-697), before any call; the fields after
\* the four caches are what the last call was and did, kept for the properties
NewExtension ==
    [cached_roslyn_path |-> None, cached_razor_path |-> None,
     cached_debugger_path |-> None, cached_version_dir |-> None,
     calls |-> 0, op |-> "none", user |-> None, result |-> NoResult, queries |-> 0,
     via |-> "none",
     prev |-> [op |-> "none", result |-> NoResult, via |-> "none"],
     dap_binary |-> NoDapCall, dap_kind |-> NoDapCall]

\* BinaryManager::new (line 15-19), before any call
NewManager ==
    /\ ext = NewExtension
    /\ razor = NewRazorSupport
    /\ cached_version_dir = None
    /\ pc = "idle"
    /\ caller = "none"
    /\ config = netcoredbg_config
    /\ language_server_id = FALSE
    /\ latest_local_version = None
    /\ github_version = None
    /\ version = <<>>
    /\ version_dir = <<>>
    /\ destination = <<>>
    /\ max_retries = 0
    /\ attempt = 0
    /\ poll_count = 0
    /\ has_content = FALSE
    /\ result = NoResult
    /\ calls = 0
    /\ h = FreshHistory(fs, None)
    /\ prev = [result |-> NoResult, config |-> netcoredbg_config, untouched |-> TRUE,
               urlFailed |-> FALSE]

Init ==
    /\ os = "Linux"
    /\ cfg_windows = FALSE
    /\ executable = {}
    /\ \E present \in SUBSET InitialNames :
          fs = [n \in present |-> CompleteInstall(ConfigOf(n))]
    /\ arch \in Architectures
    /\ NewManager

\* "netcoredbg.bak": a directory of the user next to the installs
Backup == netcoredbg \o <<46, 98, 97, 107>>

\* the builds of the extension and the platforms they run on: a build without
\* #[cfg(windows)] runs on any platform, a build with it on Windows
Builds ==
    {[os |-> o, cfg_windows |-> w] : o \in OperatingSystems, w \in BOOLEAN} \
       {[os |-> "Linux", cfg_windows |-> TRUE]}

\* what a working directory can hold besides complete installs: the directory that
\* an interrupted or failed install left empty, and a directory of the user
LeftoverNames == {VersionDirName(netcoredbg_config, V9), VersionDirName(vscode_csharp_config, V9)}

AdverseNames == {VersionDirName(netcoredbg_config, V10)} \cup LeftoverNames \cup {Backup}

\* a process that has just created its BinaryManager, on any platform, in a working
\* directory that holds a complete install, leftovers and a directory of the user
InitAdverse ==
    /\ \E b \in Builds : os = b.os /\ cfg_windows = b.cfg_windows
    /\ executable = {}
    /\ \E present \in SUBSET AdverseNames :
          fs = [n \in present |-> IF n = VersionDirName(netcoredbg_config, V10)
                                   THEN CompleteInstall(netcoredbg_config)
                                   ELSE EmptyDir]
    /\ arch \in Architectures
    /\ NewManager

(***************************************************************************)
(* get_version_dir, step by step.                                          *)
(***************************************************************************)
\* a return to the caller of get_version_dir (or of a direct download_with_retry)
Return(r, f, hist) ==
    /\ pc' = "idle"
    /\ result' = r
    /\ fs' = f
    /\ h' = [hist EXCEPT !.fsEnd = f]

\* variant: the directory without its binary is kept
RemoveIncompleteKept(f, dir) == f

\* the directory that exists without its binary is removed (line 313-318)
RemoveIncomplete(f, dir) == RemoveDirAll(f, dir)

\* variant: the other directories are removed together with the failed install
RemoveFailedInstallAndSiblings(f, dir) == [n \in {} |-> f[n]]

\* variant: the directory of an install whose binary never appeared is kept
RemoveFailedInstallKept(f, dir) == f

\* the directory of an install whose binary never appeared is removed (line 370)
RemoveFailedInstall(f, dir) == RemoveDirAll(f, dir)

\* variant: the binary is looked for under its Windows name
ValidInstallExe(f, c, dir) == IsDir(f, dir) /\ IsFile(f, <<dir, "netcoredbg.exe">>)

\* the existing directory is a complete install (line 293-297)
ValidInstall(f, c, dir) == IsDir(f, dir) /\ IsFile(f, get_binary_path(c, dir))

\* line 216-250: the cache check and the scan of the working directory
Enter(c, ls, traced) ==
    /\ pc = "idle"
    /\ calls < MaxCalls
    /\ calls' = calls + 1
    /\ caller' = "get_version_dir"
    /\ config' = c
    /\ language_server_id' = ls
    /\ prev' = [result |-> [result EXCEPT !.err = NoErr], config |-> config,
                 untouched |-> (fs = h.fsEnd),
                 urlFailed |-> (result.err = ErrDownloadUrl)]
    /\ github_version' = None
    /\ version' = <<>>
    /\ version_dir' = <<>>
    /\ destination' = <<>>
    /\ max_retries' = 0
    /\ attempt' = 0
    /\ poll_count' = 0
    /\ has_content' = FALSE
    /\ UNCHANGED <<build, executable, ext, razor, cached_version_dir>>
    /\ IF CacheHit(fs, cached_version_dir)
       THEN /\ latest_local_version' = None
            /\ Return(Ok(Unwrap(cached_version_dir)), fs,
                      [FreshHistory(fs, cached_version_dir) EXCEPT !.traced = traced])
       ELSE /\ latest_local_version' = ScanEntries(fs, DOMAIN fs, c, None)
            /\ pc' = "check_for_update"
            /\ h' = [FreshHistory(fs, cached_version_dir) EXCEPT !.traced = traced]
            /\ UNCHANGED <<fs, result>>

GetVersionDir(c, ls) == Enter(c, ls, FALSE)

\* the same call, with the answers of the environment recorded
GetVersionDirTraced(c, ls) == Enter(c, ls, TRUE)

\* what zed::latest_github_release can answer
Releases == {None} \cup {Some(t) : t \in Tags}

\* line 252-320: the catalog query, the choice of the version, the check of a
\* directory that exists for it
CheckForUpdate ==
    /\ pc = "check_for_update"
    /\ \E release \in Releases :
          LET h1 == [Report(Record(h, "rel", {release}), language_server_id,
                            "CheckingForUpdate")
                        EXCEPT !.queries = @ + 1,
                               !.catalogOk = release # None]
              gh == {ReleaseVersion(t) : t \in release}
              v == SelectVersion(gh, latest_local_version)
              dir == VersionDirName(config, Unwrap(v))
              abs == normalize_path_to_absolute(dir)
          IN  /\ github_version' = gh
              /\ IF v = None
                 THEN /\ Return(Err(ErrNoVersion(config)), fs, h1)
                      /\ UNCHANGED <<version, version_dir, cached_version_dir>>
                 ELSE /\ version' = Unwrap(v)
                      /\ version_dir' = dir
                      /\ IF ValidInstall(fs, config, dir)
                         THEN /\ cached_version_dir' = CachedPath(abs)
                              /\ Return(Ok(abs), fs, Report(h1, language_server_id, "None"))
                         ELSE /\ pc' = "install"
                              /\ fs' = IF IsDir(fs, dir) THEN RemoveIncomplete(fs, dir) ELSE fs
                              /\ h' = IF IsDir(fs, dir)
                                      THEN [h1 EXCEPT !.corrupt = TRUE,
                                                      !.removed = @ \cup {dir}]
                                      ELSE h1
                              /\ UNCHANGED <<result, cached_version_dir>>
    /\ UNCHANGED <<build, executable, ext, razor, caller, config, language_server_id, latest_local_version,
                   destination, max_retries, attempt, poll_count, has_content, calls, prev>>

\* line 322-332: the platform string and the Downloading status
ResolvePlatform ==
    /\ pc = "install"
    /\ LET h1 == [h EXCEPT !.resolved = @ \cup {"platform"}]
       IN  IF get_platform_string(config, arch)
           THEN /\ pc' = "create_version_dir"
                /\ h' = Report(h1, language_server_id, "Downloading")
                /\ UNCHANGED <<fs, result>>
           ELSE Return(Err(ErrPlatform), fs, h1)
    /\ UNCHANGED <<build, executable, ext, razor, cached_version_dir, caller, config, language_server_id,
                   latest_local_version, github_version, version, version_dir, destination,
                   max_retries, attempt, poll_count, has_content, calls, prev>>

\* variant: the version directory is not created before the URL is resolved
CreateVersionDirectoryLater(f, dir) == f

\* fs::create_dir_all(&version_dir) (line 335)
CreateVersionDirectory(f, dir) == CreateDirAll(f, dir)

\* line 334-337: the version directory is created
CreateVersionDir ==
    /\ pc = "create_version_dir"
    /\ fs' = CreateVersionDirectory(fs, version_dir)
    /\ h' = [h EXCEPT !.created = @ \cup {version_dir}]
    /\ pc' = "resolve_download_url"
    /\ UNCHANGED <<build, executable, ext, razor, cached_version_dir, caller, config, language_server_id,
                   latest_local_version, github_version, version, version_dir, destination,
                   max_retries, attempt, poll_count, has_content, result, calls, prev>>

\* line 339-345: the download URL, and the call of download_with_retry
ResolveDownloadUrl ==
    /\ pc = "resolve_download_url"
    /\ \E catalog \in BOOLEAN, assetFound \in BOOLEAN :
          LET h0 == [Record(h, "url", {<<catalog, assetFound>>})
                        EXCEPT !.resolved = @ \cup {"url"}]
              h1 == IF config.prefix = netcoredbg
                    THEN [h0 EXCEPT !.queries = @ + 1, !.catalogOk = @ \/ catalog]
                    ELSE h0
          IN  IF get_download_url(config, catalog, assetFound)
              THEN /\ destination' = version_dir
                   /\ max_retries' = InstallAttempts
                   /\ attempt' = 0
                   /\ pc' = "download_with_retry"
                   /\ h' = [h1 EXCEPT !.dest0 = IF version_dir \in DOMAIN fs
                                                 THEN Some(fs[version_dir])
                                                 ELSE None]
                   /\ UNCHANGED <<fs, result>>
              ELSE /\ Return(Err(ErrDownloadUrl), fs, h1)
                   /\ UNCHANGED <<destination, max_retries, attempt>>
    /\ UNCHANGED <<build, executable, ext, razor, cached_version_dir, caller, config, language_server_id,
                   latest_local_version, github_version, version, version_dir,
                   poll_count, has_content, calls, prev>>

\* line 133-208: one iteration of the loop of download_with_retry, or its exit;
\* recreate holds the results that the fs::create_dir_all of the cleanup (line
\* 189-191) can have, TRUE for Ok
DownloadWithRetryWith(recreate) ==
    /\ pc = "download_with_retry"
    /\ IF attempt >= max_retries
       THEN /\ Return(Err(ErrRetriesExhausted), fs, [h EXCEPT !.dl = "Err"])
            /\ UNCHANGED attempt
       ELSE \E d \in Deliveries(config, caller), created \in recreate :
               LET a == attempt + 1
                   s == DownloadAttemptStep(fs, destination, a, max_retries, d.resp, d.fault)
                   h1 == [Record(h, "ds", Append(h.inputs.ds, d)) EXCEPT
                            !.fetches = @ + 1,
                            !.last = s.outcome,
                            !.dlFailures = IF s.outcome = "download_failed" THEN @ + 1 ELSE @,
                            !.dlErr = IF download_file_http(d.resp) # NoErr
                                      THEN download_file_http(d.resp)
                                      ELSE @,
                            !.body = IF s.end = "ok" THEN Some(d.resp.body) ELSE @,
                            !.cleanups = IF s.cleaned /\ created THEN @ + 1 ELSE @,
                            !.removed = IF s.cleaned THEN @ \cup {destination} ELSE @,
                            !.created = IF s.cleaned /\ created
                                        THEN @ \cup {destination}
                                        ELSE @]
               IN  /\ attempt' = a
                   /\ IF s.cleaned /\ ~created
                      THEN Return(Err(ErrCreateDirectory(destination)),
                                  RemoveDirAll(s.fs, destination), [h1 EXCEPT !.dl = "Err"])
                      ELSE IF s.end = "continue"
                      THEN /\ fs' = s.fs
                           /\ h' = h1
                           /\ UNCHANGED <<pc, result>>
                      ELSE IF s.end = "err"
                      THEN Return(Err(s.err), s.fs, [h1 EXCEPT !.dl = "Err"])
                      ELSE IF caller = "direct"
                      THEN Return(Ok(<<>>), s.fs, [h1 EXCEPT !.dl = "Ok"])
                      ELSE /\ pc' = "poll"
                           /\ fs' = s.fs
                           /\ h' = [h1 EXCEPT !.dl = "Ok"]
                           /\ UNCHANGED result
    /\ UNCHANGED <<build, executable, ext, razor, cached_version_dir, caller, config, language_server_id,
                   latest_local_version, github_version, version, version_dir, destination,
                   max_retries, poll_count, has_content, calls, prev>>

\* the loop of download_with_retry on a filesystem that lets the cleanup create the
\* destination again
DownloadWithRetry == DownloadWithRetryWith({TRUE})

\* the same loop when the creation of the destination by the cleanup can fail
DownloadWithRetryFaulty == DownloadWithRetryWith(BOOLEAN)

\* the condition of the poll loop (line 354)
PollAgain(found, count) == ~found /\ count < max_polls

\* one check of the binary's existence (line 352, 356): a file that was written can
\* stay invisible for a while (antivirus scan, file lock); it is seen from the check
\* number `delay` on, the check before the loop being number 0
BinaryCheck(exists, delay, n) == exists /\ n >= delay

RECURSIVE PollLoop(_, _, _, _)
\* the poll loop (line 354-363) from has_content = found and poll_count = count
PollLoop(found, count, exists, delay) ==
    IF PollAgain(found, count)
    THEN PollLoop(BinaryCheck(exists, delay, count + 1), count + 1, exists, delay)
    ELSE [has_content |-> found, poll_count |-> count]

\* the delays tried: none, up to the last check of the loop, longer than the loop
Delays == {0, max_polls, max_polls + 1}

\* line 347-363: the first check of the binary and the poll loop
PollForBinary ==
    /\ pc = "poll"
    /\ \E delay \in Delays :
          LET exists == IsFile(fs, get_binary_path(config, version_dir))
              r == PollLoop(BinaryCheck(exists, delay, 0), 0, exists, delay)
          IN  /\ has_content' = r.has_content
              /\ poll_count' = r.poll_count
              /\ h' = [Record(h, "delay", {delay}) EXCEPT !.checks = 1 + r.poll_count]
    /\ pc' = "polled"
    /\ UNCHANGED <<fs, build, executable, ext, razor, cached_version_dir, caller, config, language_server_id,
                   latest_local_version, github_version, version, version_dir, destination,
                   max_retries, attempt, result, calls, prev>>

\* what the first bytes of the installed binary are when the header check reads
\* them (line 380-400): its size is below 100_000 bytes or not; its first two bytes
\* are "MZ", are something else ("bad"), are fewer than two ("short"), or the file
\* cannot be opened ("unreadable")
PEChecks ==
    {[header |-> "MZ", small |-> FALSE], [header |-> "MZ", small |-> TRUE],
     [header |-> "bad", small |-> FALSE], [header |-> "bad", small |-> TRUE],
     [header |-> "short", small |-> TRUE], [header |-> "unreadable", small |-> FALSE]}

ValidPE == [header |-> "MZ", small |-> FALSE]

\* variant: a binary below the expected size is rejected as well
PEHeaderRejectedOrSmall(pe) == pe.header = "bad" \/ pe.small

\* the header check fails the call (line 400-417): two bytes were read and they are
\* not 0x4d 0x5a
PEHeaderRejected(pe) == pe.header = "bad"

\* what the cleanup of the old versions can meet (line 429-438): read_dir(".") fails
\* ("read_dir"), an entry of the listing fails ("entry"), or the listing succeeds
\* ("ok"); kept are the old versions that are not removed, because remove_dir_all
\* failed on them or because the loop ended before it reached them
CleanupFaults(old) ==
    {io \in [list : {"ok", "read_dir", "entry"}, kept : SUBSET old] :
        io.list = "read_dir" => io.kept = old}

NoCleanupFault == [list |-> "ok", kept |-> {}]

\* line 365-450: the end of the install: failure when the binary was not found or
\* its header is rejected, else the cleanup of the old versions, the None status and
\* the cache
FinishInstallWith(pe, io) ==
    /\ pc = "polled"
    /\ LET abs == normalize_path_to_absolute(version_dir)
           old == OldVersions(fs, config, version_dir)
           gone == old \ io.kept
           pruned == IF gone = old
                     THEN RemoveOldVersions(fs, config, version_dir)
                     ELSE [n \in DOMAIN fs \ gone |-> fs[n]]
           h1 == IF cfg_windows THEN [h EXCEPT !.pe = Some(pe)] ELSE h
           h2 == [h1 EXCEPT !.listing = io.list, !.removed = @ \cup gone]
       IN  IF ~has_content
           THEN /\ Return(Err(ErrNotFoundAfterExtraction(config)),
                          RemoveFailedInstall(fs, version_dir),
                          [h EXCEPT !.removed = @ \cup {version_dir}])
                /\ UNCHANGED cached_version_dir
           ELSE IF cfg_windows /\ PEHeaderRejected(pe)
           THEN /\ Return(Err(ErrInvalidPEHeader(config)), RemoveDirAll(fs, version_dir),
                          [h1 EXCEPT !.removed = @ \cup {version_dir}])
                /\ UNCHANGED cached_version_dir
           ELSE IF io.list = "read_dir"
           THEN /\ Return(Err(ErrListWorkingDirectory), pruned, h2)
                /\ UNCHANGED cached_version_dir
           ELSE IF io.list = "entry"
           THEN /\ Return(Err(ErrLoadDirectoryEntry), pruned, h2)
                /\ UNCHANGED cached_version_dir
           ELSE /\ cached_version_dir' = CachedPath(abs)
                /\ Return(Ok(abs), pruned, Report(h2, language_server_id, "None"))
    /\ UNCHANGED <<build, executable, ext, razor, caller, config, language_server_id,
                   latest_local_version, github_version, version, version_dir, destination,
                   max_retries, attempt, poll_count, has_content, calls, prev>>

\* the end of an install whose binary is what the archive should hold and whose
\* working directory can be listed and pruned
FinishInstall == FinishInstallWith(ValidPE, NoCleanupFault)

\* the end of an install with any binary and any failure of the cleanup
FinishInstallFaulty ==
    \E pe \in PEChecks, io \in CleanupFaults(OldVersions(fs, config, version_dir)) :
        FinishInstallWith(pe, io)

(***************************************************************************)
(* The environment between two calls: a directory of the working directory *)
(* is removed by the user or by another process.                           *)
(***************************************************************************)
EnvRemoveDir(name) ==
    /\ pc = "idle"
    /\ calls >= 1
    /\ calls < MaxCalls
    /\ name \in DOMAIN fs
    /\ fs' = RemoveDirAll(fs, name)
    /\ UNCHANGED <<build, executable, ext, razor, cached_version_dir, pc, caller, config, language_server_id,
                   latest_local_version, github_version, version, version_dir, destination,
                   max_retries, attempt, poll_count, has_content, result, calls, h, prev>>

\* the binary of the install in the directory `name` is deleted between two calls
\* (by the user, by an antivirus quarantine); the directory and its other files stay
EnvRemoveBinary(name) ==
    /\ pc = "idle"
    /\ calls = 1
    /\ name \in DOMAIN fs
    /\ BinaryFile(netcoredbg_config) \in DOMAIN fs[name]
    /\ fs' = [fs EXCEPT ![name] =
                 [n \in DOMAIN @ \ {BinaryFile(netcoredbg_config)} |-> @[n]]]
    /\ UNCHANGED <<build, executable, ext, razor, cached_version_dir, pc, caller, config,
                   language_server_id, latest_local_version, github_version, version,
                   version_dir, destination, max_retries, attempt, poll_count, has_content,
                   result, calls, h, prev>>

(***************************************************************************)
(* download_with_retry called on its own, once, with any max_retries and   *)
(* on a destination that may exist or not.                                 *)
(***************************************************************************)
DirectDownload(c, dest, n) ==
    /\ pc = "idle"
    /\ calls = 0
    /\ calls' = calls + 1
    /\ caller' = "direct"
    /\ config' = c
    /\ destination' = dest
    /\ max_retries' = n
    /\ attempt' = 0
    /\ pc' = "download_with_retry"
    /\ h' = [FreshHistory(fs, cached_version_dir)
                EXCEPT !.dest0 = IF dest \in DOMAIN fs THEN Some(fs[dest]) ELSE None]
    /\ prev' = [result |-> [result EXCEPT !.err = NoErr], config |-> config,
                untouched |-> (fs = h.fsEnd),
                urlFailed |-> (result.err = ErrDownloadUrl)]
    /\ UNCHANGED <<fs, build, executable, ext, razor, cached_version_dir, language_server_id, latest_local_version,
                   github_version, version, version_dir, poll_count, has_content, result>>

Next ==
    \/ \E c \in Configs, ls \in BOOLEAN : GetVersionDir(c, ls)
    \/ CheckForUpdate
    \/ ResolvePlatform
    \/ CreateVersionDir
    \/ ResolveDownloadUrl
    \/ DownloadWithRetry
    \/ PollForBinary
    \/ FinishInstall
    \/ \E name \in InstallNames : EnvRemoveDir(name)

Spec == Init /\ [][Next]_vars

\* the steps inside a call: the code runs them one after the other without waiting
\* for anything but the answers of the HTTP client and the sleeps of the poll loop
CallSteps ==
    \/ CheckForUpdate
    \/ ResolvePlatform
    \/ CreateVersionDir
    \/ ResolveDownloadUrl
    \/ DownloadWithRetry
    \/ PollForBinary
    \/ FinishInstall

NextFair ==
    \/ \E c \in Configs, ls \in BOOLEAN : calls < MaxCallsFair /\ GetVersionDir(c, ls)
    \/ CallSteps
    \/ \E name \in InstallNames : EnvRemoveDir(name)

\* a call that was started goes on until it returns
SpecFair == Init /\ [][NextFair]_vars /\ WF_vars(CallSteps)

\* a first call that fills the cache or leaves it empty, directories removed after
\* it, and then a call whose environment is recorded and whose status reports are
\* seen (it is given a language-server id)
NextStale ==
    \/ \E c \in Configs, ls \in BOOLEAN : calls = 0 /\ GetVersionDir(c, ls)
    \/ \E c \in Configs : calls = 1 /\ GetVersionDirTraced(c, TRUE)
    \/ CallSteps
    \/ \E name \in InstallNames : EnvRemoveDir(name)

SpecStale == Init /\ [][NextStale]_vars

\* one call on any platform, in a working directory with leftovers, whose install
\* ends with any binary and any failure of the cleanup
NextAdverse ==
    \/ \E c \in Configs, ls \in BOOLEAN : calls = 0 /\ GetVersionDir(c, ls)
    \/ CheckForUpdate
    \/ ResolvePlatform
    \/ CreateVersionDir
    \/ ResolveDownloadUrl
    \/ DownloadWithRetry
    \/ PollForBinary
    \/ FinishInstallFaulty

SpecAdverse == InitAdverse /\ [][NextAdverse]_vars

\* two calls for the debugger, and between them the binary of an install deleted
NextTamper ==
    \/ \E ls \in BOOLEAN : calls <= 1 /\ GetVersionDir(netcoredbg_config, ls)
    \/ CallSteps
    \/ \E name \in InstallNames : EnvRemoveBinary(name)

SpecTamper == Init /\ [][NextTamper]_vars

NextRetry ==
    \/ \E c \in Configs, v \in Versions, n \in 0..MaxRetriesArg :
          DirectDownload(c, VersionDirName(c, v), n)
    \/ DownloadWithRetry

SpecRetry == Init /\ [][NextRetry]_vars

\* download_with_retry called on its own, on a filesystem where the creation of the
\* destination by the cleanup can fail
NextRetryFaulty ==
    \/ \E c \in Configs, v \in Versions, n \in 0..MaxRetriesArg :
          DirectDownload(c, VersionDirName(c, v), n)
    \/ DownloadWithRetryFaulty

SpecRetryFaulty == Init /\ [][NextRetryFaulty]_vars

(***************************************************************************)
(* csharp.rs: the CsharpExtension, which installs the VS Code C# extension *)
(* with its own copies of download_file_http, extract_zip and              *)
(* download_with_retry (line 76-236, the same code as binary_manager.rs)   *)
(* and hands out the paths of three tools inside it.  A path of a tool is  *)
(* the pair of its directory and its name below the directory.  The status *)
(* reports of these functions are not modelled.                            *)
(***************************************************************************)
RoslynFile == BinaryFile(vscode_csharp_config)
RazorFile == IF os = "Windows" THEN "extension/.razor/rzls.exe" ELSE "extension/.razor/rzls"
DebuggerFile ==
    IF os = "Windows" THEN "extension/.debugger/x86_64/vsdbg.exe"
    ELSE "extension/.debugger/vsdbg"

\* the VSIX packages a download may deliver: the whole extension, or one without
\* the debugger
VsixEntry(n) == [name |-> n, is_dir |-> FALSE]
VsixFull == <<VsixEntry(RoslynFile), VsixEntry(RazorFile), VsixEntry(DebuggerFile)>>
VsixNoDebugger == <<VsixEntry(RoslynFile), VsixEntry(RazorFile)>>

FetchFailed == [resp |-> [ok |-> FALSE, body |-> EmptyBody], fault |-> NoFault]
Fetched(a) == [resp |-> [ok |-> TRUE, body |-> ZipBody(a)], fault |-> NoFault]

\* what the attempts of one download_with_retry call meet, attempt by attempt
VsixDownloads ==
    {<<FetchFailed, FetchFailed, FetchFailed>>,
     <<FetchFailed, Fetched(VsixFull), FetchFailed>>,
     <<Fetched(VsixFull), FetchFailed, FetchFailed>>,
     <<Fetched(VsixNoDebugger), FetchFailed, FetchFailed>>}

\* the answers of the environment to one call: the release of the catalog, the
\* downloads, and the check from which the extracted binary is visible
ExtInputs == [rel : Releases, ds : VsixDownloads, delay : {0, max_polls + 1}]

\* the max_retries that get_vscode_version_dir passes (csharp.rs line 387)
VsixAttempts == 3

ErrNoCsharpVersion ==
    <<"No", "C#", "extension", "version", "found", "locally", "and", "cannot", "check",
      "GitHub", "for", "updates">>
ErrRoslynNotFoundAfterExtraction ==
    <<"failed", "to", "download", "VS", "Code", "C#", "extension", "Roslyn", "binary",
      "not", "found", "after", "extraction">>
ErrToolNotFound(file) == <<"not", "found", "at", file>>

\* CsharpExtension::normalize_path_to_absolute (csharp.rs line 23-73) on a platform
\* other than Windows, for the path of a file: an absolute path stays, a relative
\* one is joined to the working directory
ext_normalize_path_to_absolute(path) ==
    <<IF StartsWith(path[1], Slash) THEN path[1] ELSE Cwd \o Slash \o path[1], path[2]>>

RECURSIVE ScanVscode(_, _, _)
\* the loop over read_dir(".") of get_vscode_version_dir (csharp.rs line 260-275)
ScanVscode(f, names, latest) ==
    IF names = {}
    THEN latest
    ELSE LET name == CHOOSE n \in names : TRUE
             ver == TrimStartMatches(name, vscode_csharp \o Dash)
         IN  IF /\ StartsWith(name, vscode_csharp \o Dash)
                /\ IsDir(f, name)
                /\ (latest = None \/ StrGreater(ver, Unwrap(latest)))
             THEN ScanVscode(f, names \ {name}, Some(ver))
             ELSE ScanVscode(f, names \ {name}, latest)

RECURSIVE ext_download_with_retry(_, _, _, _, _)
\* the loop of download_with_retry after the attempt that ended as st
AfterAttempt(st, dest, a, n, ds) ==
    IF st.end = "continue"
    THEN ext_download_with_retry(st.fs, dest, a, n, ds)
    ELSE [fs |-> st.fs, err |-> IF st.end = "ok" THEN NoErr ELSE st.err]

\* CsharpExtension::download_with_retry (csharp.rs line 162-236) from attempt a on,
\* with the deliveries ds for the attempts to come
ext_download_with_retry(f, dest, a, n, ds) ==
    IF a >= n \/ ds = <<>>
    THEN [fs |-> f, err |-> ErrRetriesExhausted]
    ELSE CHOOSE r \in {AfterAttempt(st, dest, a + 1, n, Tail(ds)) :
                         st \in {DownloadAttemptStep(f, dest, a + 1, n, Head(ds).resp,
                                                     Head(ds).fault)}} : TRUE

\* what a call did to the extension and the disk: its result, the filesystem and
\* the cached_version_dir it leaves, the release-catalog queries it made, and the
\* path it took ("cache", "validated", "installed", "error")
ExtOutcome(r, f, cache, q, via) ==
    [result |-> r, fs |-> f, cached_version_dir |-> cache, queries |-> q, via |-> via]

\* get_vscode_version_dir after download_with_retry ended as dl (csharp.rs line
\* 387-479): the wait for the binary, the removal of the old versions, the cache
AfterVsixDownload(dl, dir, cache, in) ==
    LET exists == IsFile(dl.fs, <<dir, RoslynFile>>)
        p == PollLoop(BinaryCheck(exists, in.delay, 0), 0, exists, in.delay)
        old == {n \in DOMAIN dl.fs : StartsWith(n, vscode_csharp \o Dash) /\ n # dir}
    IN  IF dl.err # NoErr
        THEN ExtOutcome(Err(dl.err), dl.fs, cache, 1, "error")
        ELSE IF ~p.has_content
        THEN ExtOutcome(Err(ErrRoslynNotFoundAfterExtraction), RemoveDirAll(dl.fs, dir),
                        cache, 1, "error")
        ELSE ExtOutcome(Ok(dir), [n \in DOMAIN dl.fs \ old |-> dl.fs[n]], Some(dir), 1,
                        "installed")

\* CsharpExtension::get_vscode_version_dir (csharp.rs line 240-480); the result
\* holds the directory as the code returns it, relative to the working directory
get_vscode_version_dir(f, cache, in) ==
    IF cache # None /\ IsDir(f, Unwrap(cache))
    THEN ExtOutcome(Ok(Unwrap(cache)), f, cache, 0, "cache")
    ELSE
    LET latest == ScanVscode(f, DOMAIN f, None)
        gh == {ReleaseVersion(t) : t \in in.rel}
        v == IF gh # None
             THEN IF latest = None \/ StrGreater(Unwrap(gh), Unwrap(latest))
                  THEN gh ELSE latest
             ELSE latest
        dir == vscode_csharp \o Dash \o Unwrap(v)
        f0 == IF IsDir(f, dir) THEN RemoveDirAll(f, dir) ELSE f
        f1 == CreateDirAll(f0, dir)
    IN  IF v = None
        THEN ExtOutcome(Err(ErrNoCsharpVersion), f, cache, 1, "error")
        ELSE IF IsDir(f, dir) /\ IsFile(f, <<dir, RoslynFile>>)
        THEN ExtOutcome(Ok(dir), f, cache, 1, "validated")
        ELSE CHOOSE o \in {AfterVsixDownload(dl, dir, cache, in) :
                             dl \in {ext_download_with_retry(f1, dir, 0, VsixAttempts,
                                                             in.ds)}} : TRUE

\* what a call that hands out the path of a tool did: as ExtOutcome, with the
\* cache slot it wrote (slot, path) and the file it made executable
ToolOutcome(r, v, slot, path, chmod) ==
    [result |-> r, fs |-> v.fs, cached_version_dir |-> v.cached_version_dir,
     queries |-> v.queries, via |-> v.via, slot |-> slot, path |-> path, chmod |-> chmod]

\* get_roslyn_path, get_razor_path and get_debugger_path after the version
\* directory was resolved as v: the file of the tool is looked for in it, marked
\* executable, and its absolute path is stored in the slot `written`
ToolInVersionDir(v, written, file) ==
    LET path == <<v.result.path, file>>
        abs == ext_normalize_path_to_absolute(path)
    IN  IF v.result.kind = "Err"
        THEN ToolOutcome(v.result, v, "none", None, {})
        ELSE IF ~IsFile(v.fs, path)
        THEN ToolOutcome(Err(ErrToolNotFound(file)), v, "none", None, {})
        ELSE ToolOutcome(Ok(abs), v, written, Some(abs), {path})

\* the body shared by get_roslyn_path, get_razor_path and get_debugger_path after
\* the user-defined path: the cache slot `checked` is looked up, else the version
\* directory is resolved and the tool looked for in it
ToolPath(f, e, in, checked, written, file) ==
    IF e[checked] # None /\ IsFile(f, Unwrap(e[checked]))
    THEN ToolOutcome(Ok(Unwrap(e[checked])),
                     ExtOutcome(NoResult, f, e.cached_version_dir, 0, "cache"),
                     "none", None, {})
    ELSE CHOOSE o \in {ToolInVersionDir(v, written, file) :
                         v \in {get_vscode_version_dir(f, e.cached_version_dir, in)}} : TRUE

\* a path given by the user (settings, debug configuration)
UserPath == <<<<47, 117>>, "tool">>
UserPaths == {None, Some(UserPath)}

\* the outcome of a call that returns the path given by the user
UserOutcome(f, e, path) ==
    ToolOutcome(Ok(path), ExtOutcome(NoResult, f, e.cached_version_dir, 0, "user"),
                "none", None, {})

\* CsharpExtension::get_roslyn_path (csharp.rs line 482-550)
get_roslyn_path(f, e, user, in) ==
    IF user # None
    THEN UserOutcome(f, e, ext_normalize_path_to_absolute(Unwrap(user)))
    ELSE ToolPath(f, e, in, "cached_roslyn_path", "cached_roslyn_path", RoslynFile)

\* CsharpExtension::get_razor_path (csharp.rs line 552-621)
get_razor_path(f, e, user, in) ==
    IF user # None
    THEN UserOutcome(f, e, ext_normalize_path_to_absolute(Unwrap(user)))
    ELSE ToolPath(f, e, in, "cached_razor_path", "cached_razor_path", RazorFile)

\* CsharpExtension::get_debugger_path (csharp.rs line 623-686): the slot it looks
\* up is cached_razor_path (line 636), the slot it writes cached_debugger_path (684)
get_debugger_path(f, e, user, in) ==
    IF user # None
    THEN UserOutcome(f, e, Unwrap(user))
    ELSE ToolPath(f, e, in, "cached_razor_path", "cached_debugger_path", DebuggerFile)

\* the extension after a call: its caches, and what the call was and did
ExtAfter(op, user, o) ==
               [[ext EXCEPT !.cached_version_dir = o.cached_version_dir,
                           !.calls = @ + 1,
                           !.op = op,
                           !.user = user,
                           !.result = o.result,
                           !.queries = o.queries,
                           !.via = o.via,
                           !.prev = [op |-> ext.op, result |-> ext.result, via |-> ext.via]]
                  EXCEPT ![IF o.slot = "none" THEN "op" ELSE o.slot] =
                            IF o.slot = "none" THEN op ELSE o.path]

\* a call of the extension takes effect: the disk, the caches, the execute bit
\* (set by fs::set_permissions under #[cfg(unix)], with its failure ignored: the
\* bit is set or not), and what the call was and did
ExtReturn(op, user, o) ==
    /\ ext.calls < MaxExtCalls
    /\ fs' = o.fs
    /\ \E done \in SUBSET o.chmod : executable' = executable \cup done
    /\ ext' = ExtAfter(op, user, o)
    /\ UNCHANGED <<build, razor, manager>>

GetVscodeVersionDir ==
    \E in \in ExtInputs :
        \E v \in {get_vscode_version_dir(fs, ext.cached_version_dir, in)} :
            \E o \in {ToolOutcome(v.result, v, "none", None, {})} :
                ExtReturn("get_vscode_version_dir", None, o)

GetRoslynPath ==
    \E in \in ExtInputs, user \in UserPaths :
        \E o \in {get_roslyn_path(fs, ext, user, in)} :
            ExtReturn("get_roslyn_path", user, o)

GetRazorPath ==
    \E in \in ExtInputs, user \in UserPaths :
        \E o \in {get_razor_path(fs, ext, user, in)} :
            ExtReturn("get_razor_path", user, o)

GetDebuggerPath ==
    \E in \in ExtInputs, user \in UserPaths :
        \E o \in {get_debugger_path(fs, ext, user, in)} :
            ExtReturn("get_debugger_path", user, o)

\* the files of a complete install of the VS Code C# extension
VsixInstall == [n \in {RoslynFile, RazorFile, DebuggerFile} |-> TRUE]

\* a process that has just created its CsharpExtension, in a working directory
\* that holds complete installs of earlier runs
InitExt ==
    /\ os = "Linux"
    /\ cfg_windows = FALSE
    /\ executable = {}
    /\ \E present \in SUBSET {VersionDirName(vscode_csharp_config, v) : v \in Versions} :
          fs = [n \in present |-> VsixInstall]
    /\ arch \in Architectures
    /\ NewManager

NextExt ==
    \/ GetVscodeVersionDir
    \/ GetRoslynPath
    \/ GetRazorPath
    \/ GetDebuggerPath

SpecExt == InitExt /\ [][NextExt]_vars

(***************************************************************************)
(* csharp.rs: the debug adapter.  A debug configuration is the text of a    *)
(* JSON document, a sequence of tokens: punctuation, blanks and quoted      *)
(* strings.                                                                 *)
(***************************************************************************)
Q(word) == "\"" \o word \o "\""
JsonStrings == {Q("request"), Q("launch"), Q("attach"), Q("run"), Q("env")}

\* the configurations tried
DapConfigs ==
    {<<"{", Q("request"), ":", Q("launch"), "}">>,
     <<"{", Q("request"), ":", Q("attach"), "}">>,
     <<"{", Q("request"), ":", " ", Q("launch"), "}">>,
     <<"{", Q("request"), ":", Q("run"), "}">>,
     <<"{", Q("request"), ":", "5", "}">>,
     <<"{", "}">>,
     <<"{", Q("request"), ":", Q("attach"), ",", Q("env"), ":", "{", Q("request"), ":",
       Q("launch"), "}", "}">>}

Adapters == {"coreclr", "netcoredbg"}

\* str::contains: the needle occurs in the text
Contains(text, needle) ==
    \E i \in 0..(Len(text) - Len(needle)) :
        \A j \in 1..Len(needle) : text[i + j] = needle[j]

\* the tokens that the JSON parser sees: blanks between tokens mean nothing
JsonTokens(text) == SelectSeq(text, LAMBDA t : t # " ")

RECURSIVE Depth(_, _)
\* the number of objects open before token i
Depth(toks, i) ==
    IF i <= 1 THEN 0
    ELSE Depth(toks, i - 1) + (IF toks[i - 1] = "{" THEN 1 ELSE 0)
                            - (IF toks[i - 1] = "}" THEN 1 ELSE 0)

\* Value::get(key) on the document: the values of the member `key` of the
\* top-level object
JsonGet(text, key) ==
    LET toks == JsonTokens(text)
    IN  {toks[i + 2] : i \in {k \in 1..(Len(toks) - 2) :
                                 /\ toks[k] = Q(key)
                                 /\ toks[k + 1] = ":"
                                 /\ Depth(toks, k) = 1}}

\* .and_then(|v| v.as_str()): the value when it is a string
AsStr(values) == values \cap JsonStrings

DapOk(adapter, configuration, request) ==
    [adapter |-> adapter, config |-> configuration, kind |-> "Ok", request |-> request]
DapErr(adapter, configuration) ==
    [adapter |-> adapter, config |-> configuration, kind |-> "Err", request |-> "none"]

\* the request kind that get_dap_binary derives from the text of the
\* configuration (csharp.rs line 733-737)
RequestOfText(configuration) ==
    IF Contains(configuration, <<Q("request"), ":", Q("launch")>>)
    THEN "Launch"
    ELSE "Attach"

\* CsharpExtension::dap_request_kind (csharp.rs line 752-773)
dap_request_kind(adapter_name, configuration) ==
    LET request == AsStr(JsonGet(configuration, "request"))
    IN  IF adapter_name # "coreclr"
        THEN DapErr(adapter_name, configuration)
        ELSE IF request = Some(Q("launch"))
        THEN DapOk(adapter_name, configuration, "Launch")
        ELSE IF request = Some(Q("attach"))
        THEN DapOk(adapter_name, configuration, "Attach")
        ELSE DapErr(adapter_name, configuration)

\* the answers of the environment tried with get_dap_binary
DapInputs ==
    [rel : {None}, delay : {0},
     ds : {<<FetchFailed, FetchFailed, FetchFailed>>,
           <<Fetched(VsixFull), FetchFailed, FetchFailed>>}]

\* CsharpExtension::get_dap_binary (csharp.rs line 699-750) for an adapter that
\* is not coreclr: an error before anything is looked at (line 711-717)
GetDapBinaryUnsupported ==
    \E adapter_name \in Adapters \ {"coreclr"}, configuration \in DapConfigs :
        /\ ext' = [ext EXCEPT !.dap_binary = DapErr(adapter_name, configuration)]
        /\ UNCHANGED <<fs, build, executable, razor, manager>>

\* CsharpExtension::get_dap_binary (csharp.rs line 699-750) for coreclr
GetDapBinary ==
    \E configuration \in DapConfigs, user \in UserPaths, in \in DapInputs :
        \E o \in {get_debugger_path(fs, ext, user, in)} :
            /\ ext.calls < MaxExtCalls
            /\ fs' = o.fs
            /\ \E done \in SUBSET o.chmod : executable' = executable \cup done
            /\ ext' = [ExtAfter("get_dap_binary", user, o) EXCEPT
                          !.dap_binary =
                              IF o.result.kind = "Err"
                              THEN DapErr("coreclr", configuration)
                              ELSE DapOk("coreclr", configuration,
                                         RequestOfText(configuration))]
            /\ UNCHANGED <<build, razor, manager>>

\* CsharpExtension::dap_request_kind (csharp.rs line 752-773)
DapRequestKind ==
    \E adapter_name \in Adapters, configuration \in DapConfigs :
        /\ ext' = [ext EXCEPT !.dap_kind = dap_request_kind(adapter_name, configuration)]
        /\ UNCHANGED <<fs, build, executable, razor, manager>>

NextDap ==
    \/ GetDapBinaryUnsupported
    \/ GetDapBinary
    \/ DapRequestKind

SpecDap == InitExt /\ [][NextDap]_vars

(***************************************************************************)
(* command_builder.rs: RazorSupport, which looks up the three Razor         *)
(* components in an install of the VS Code C# extension.                    *)
(***************************************************************************)
RazorCompilerPaths ==
    <<"extension/.razor/Microsoft.CodeAnalysis.Razor.Compiler.dll",
      "extension/Microsoft.CodeAnalysis.Razor.Compiler.dll">>
RazorTargetsPaths ==
    <<"extension/.razor/Targets/Microsoft.NET.Sdk.Razor.DesignTime.targets",
      "extension/Targets/Microsoft.NET.Sdk.Razor.DesignTime.targets">>
RazorExtensionPaths ==
    <<"extension/.razor/RazorExtension/Microsoft.VisualStudioCode.RazorExtension.dll",
      "extension/RazorExtension/Microsoft.VisualStudioCode.RazorExtension.dll">>

RazorComponentFiles ==
    {p[i] : p \in {RazorCompilerPaths, RazorTargetsPaths, RazorExtensionPaths}, i \in 1..2}

\* the loop over possible_paths: the first path that exists
FirstExisting(f, dir, possible_paths) ==
    LET found == {i \in 1..Len(possible_paths) : IsFile(f, <<dir, possible_paths[i]>>)}
    IN  IF found = {}
        THEN None
        ELSE Some(<<dir, possible_paths[CHOOSE i \in found : \A j \in found : i <= j]>>)

\* RazorSupport::find_razor_compiler_dll (command_builder.rs line 126-147)
find_razor_compiler_dll(f, dir) == FirstExisting(f, dir, RazorCompilerPaths)
\* RazorSupport::find_razor_targets (line 150-171)
find_razor_targets(f, dir) == FirstExisting(f, dir, RazorTargetsPaths)
\* RazorSupport::find_razor_extension_dll (line 174-195)
find_razor_extension_dll(f, dir) == FirstExisting(f, dir, RazorExtensionPaths)

\* RazorSupport::is_razor_available (line 198-209)
is_razor_available(f, dir) ==
    /\ find_razor_compiler_dll(f, dir) # None
    /\ find_razor_targets(f, dir) # None
    /\ find_razor_extension_dll(f, dir) # None

\* a step of get_razor_components leaves the disk and the rest alone
RazorStep(r) ==
    /\ razor' = r
    /\ UNCHANGED <<fs, build, executable, ext, manager>>

\* get_razor_components, line 213: the call begins with is_razor_available, and
\* returns None when a component is missing (line 219-221)
CheckRazorAvailable ==
    /\ razor.pc = "idle"
    /\ LET available == is_razor_available(fs, razor.version_dir)
       IN  RazorStep([razor EXCEPT !.available = available,
                                   !.components = <<>>,
                                   !.tampered = FALSE,
                                   !.outcome = IF available THEN "none" ELSE "None",
                                   !.pc = IF available THEN "compiler_dll" ELSE "idle"])

\* Option::unwrap on the second lookup `found` of a component (line 215-217): the
\* path is kept and the call goes on at `then`, or the call panics
UnwrapLookup(found, then) ==
    IF found = None
    THEN RazorStep([razor EXCEPT !.outcome = "panic", !.pc = "panicked"])
    ELSE RazorStep([razor EXCEPT !.components = Append(@, Unwrap(found)),
                                 !.outcome = IF then = "idle" THEN "Some" ELSE "none",
                                 !.pc = then])

\* line 215: self.find_razor_compiler_dll().unwrap()
LookupCompilerDll ==
    /\ razor.pc = "compiler_dll"
    /\ UnwrapLookup(find_razor_compiler_dll(fs, razor.version_dir), "targets_path")

\* line 216: self.find_razor_targets().unwrap()
LookupTargetsPath ==
    /\ razor.pc = "targets_path"
    /\ UnwrapLookup(find_razor_targets(fs, razor.version_dir), "extension_dll")

\* line 217: self.find_razor_extension_dll().unwrap(), and the return of Some
LookupExtensionDll ==
    /\ razor.pc = "extension_dll"
    /\ UnwrapLookup(find_razor_extension_dll(fs, razor.version_dir), "idle")

\* another process deletes a component file (an update, a cleanup of the install)
EnvDeleteComponent ==
    \E name \in DOMAIN fs, file \in RazorComponentFiles :
        /\ file \in DOMAIN fs[name]
        /\ fs' = [fs EXCEPT ![name] = [n \in DOMAIN @ \ {file} |-> @[n]]]
        /\ razor' = [razor EXCEPT !.tampered = TRUE]
        /\ UNCHANGED <<build, executable, ext, manager>>

\* a process with a RazorSupport for an install that holds some of the component
\* files
InitRazor ==
    /\ os = "Linux"
    /\ cfg_windows = FALSE
    /\ executable = {}
    /\ arch \in Architectures
    /\ \E present \in SUBSET RazorComponentFiles :
          fs = [n \in {VersionDirName(vscode_csharp_config, V9)} |->
                   [file \in present |-> TRUE]]
    /\ NewManager

NextRazor ==
    \/ CheckRazorAvailable
    \/ LookupCompilerDll
    \/ LookupTargetsPath
    \/ LookupExtensionDll
    \/ EnvDeleteComponent

SpecRazor == InitRazor /\ [][NextRazor]_vars

(***************************************************************************)
(* Properties.                                                             *)
(***************************************************************************)
\* a call of get_version_dir has returned and nothing was started after it
Returned == pc = "idle" /\ caller = "get_version_dir" /\ calls >= 1

\* that call got past the cache check and asked the release catalog
Queried == caller = "get_version_dir" /\ h.queries >= 1

\* the names an archive puts below the destination: all but those that leave it
SafeNames(body) ==
    IF body.kind # "zip" THEN {}
    ELSE {body.entries[i].name : i \in {j \in 1..Len(body.entries) :
                                           body.entries[j].name # "../../evil"}}

\* the file n of the directory dir was written to its end
Complete(f, dir, n) == dir \in DOMAIN f /\ n \in DOMAIN f[dir] /\ f[dir][n]

\* the files of a directory of the filesystem f, none when it does not exist
FilesOf(f, dir) == IF dir \in DOMAIN f THEN DOMAIN f[dir] ELSE {}

\* C1: after a call that returned Ok(p), a second call with the same configuration
\* on a filesystem nobody touched returns Ok(p) again, and makes no catalog query,
\* no HTTP fetch and no change of the filesystem.
Th_C1_SecondCallIsCacheHit ==
    (Returned /\ calls >= 2 /\ prev.result.kind = "Ok" /\ prev.untouched
              /\ prev.config = config)
    => /\ result = Ok(prev.result.path)
       /\ h.queries = 0
       /\ h.fetches = 0
       /\ h.removed = {} /\ h.created = {}
       /\ h.fsEnd = h.fs0

Wit_C1_SecondCallIsCacheHit ==
    /\ Returned /\ calls = 2 /\ prev.result.kind = "Ok" /\ prev.untouched
    /\ prev.config = config
    /\ result.kind = "Ok" /\ h.queries = 0

Cx_C3_KeepsNewerLocal ==
    (Queried /\ latest_local_version = Some(V10) /\ github_version = Some(V9))
    => /\ version = V10
       /\ h.fetches = 0
       /\ VersionDirName(config, V10) \in DOMAIN fs

\* C4: when the catalog query fails and the directory of the greatest local version
\* holds the binary, the call returns Ok with that directory, makes no HTTP fetch
\* and creates or deletes no directory.
Th_C4_OfflineFallback ==
    (Returned /\ Queried /\ github_version = None /\ latest_local_version # None
       /\ ValidInstall(h.fs0, config,
                       VersionDirName(config, Unwrap(latest_local_version))))
    => /\ result = Ok(Cwd \o Slash \o
                      VersionDirName(config, Unwrap(latest_local_version)))
       /\ h.fetches = 0
       /\ h.created = {} /\ h.removed = {}
       /\ h.fsEnd = h.fs0

Wit_C4_OfflineFallback ==
    /\ Returned /\ Queried /\ github_version = None
    /\ latest_local_version = Some(V10)
    /\ result.kind = "Ok" /\ h.fetches = 0

\* C5: a call that finds the catalog and every download unavailable returns Ok
\* whenever some directory {prefix}-{v} of the working directory holds the binary.
Cx_C5_OfflineAlwaysOk ==
    (Returned /\ Queried /\ ~h.catalogOk /\ h.dlFailures = h.fetches
       /\ \E n \in DOMAIN h.fs0 :
             StartsWith(n, config.prefix \o Dash) /\ ValidInstall(h.fs0, config, n))
    => result.kind = "Ok"

Th_C7_CorruptionRecovery ==
    /\ (caller = "get_version_dir" /\ h.corrupt /\ pc \in {"install", "create_version_dir"})
          => version_dir \notin DOMAIN fs /\ h.fetches = 0
    /\ (caller = "get_version_dir" /\ h.corrupt /\ pc = "download_with_retry"
          /\ h.fetches = 0)
          => FilesOf(fs, version_dir) = {} /\ version_dir \in DOMAIN fs
    /\ (Returned /\ h.corrupt /\ h.dl = "Ok" /\ has_content)
          => /\ result = Ok(Cwd \o Slash \o version_dir)
             /\ Complete(h.fsEnd, version_dir, BinaryFile(config))

Wit_C7_CorruptionRecovery ==
    /\ Returned /\ h.corrupt /\ h.dl = "Ok" /\ has_content
    /\ result.kind = "Ok"

\* C8: download_with_retry gives up on no failure before attempt n, and an attempt
\* that succeeds ends the call with Ok: the destination then holds what that attempt
\* extracted, every earlier attempt failed, and no later attempt is made.
Th_C8_RetryUntilSuccess ==
    /\ (caller = "direct" /\ h.dl = "Err")
          => attempt = max_retries
    /\ (caller = "direct" /\ h.dl = "Ok")
          => /\ pc = "idle" /\ result.kind = "Ok"
             /\ attempt <= max_retries
             /\ h.fetches = attempt
             /\ h.dlFailures + h.cleanups = attempt - 1
             /\ \A n \in SafeNames(Unwrap(h.body)) :
                   Complete(h.fsEnd, destination, n)

Wit_C8_RetryUntilSuccess ==
    /\ caller = "direct" /\ h.dl = "Ok" /\ pc = "idle"
    /\ max_retries = 3 /\ attempt = 3 /\ h.dlFailures = 2
    /\ Complete(fs, destination, BinaryFile(config))

\* C9: when every download fails, download_with_retry makes exactly n fetches, never
\* deletes or creates the destination, and returns the error of the last download.
Th_C9_AllDownloadsFail ==
    /\ (caller = "direct" /\ pc = "download_with_retry" /\ h.dlFailures = h.fetches)
          => fs = h.fs0 /\ h.cleanups = 0
    /\ (caller = "direct" /\ pc = "idle" /\ max_retries >= 1
          /\ h.dlFailures = h.fetches)
          => /\ h.fetches = max_retries
             /\ h.cleanups = 0 /\ h.removed = {} /\ h.created = {}
             /\ h.fsEnd = h.fs0
             /\ result = Err(h.dlErr)
             /\ h.dlErr \in {ErrHttpFetch, ErrEmptyBody}

Wit_C9_AllDownloadsFail ==
    /\ caller = "direct" /\ pc = "idle"
    /\ max_retries = 3 /\ h.fetches = 3 /\ h.dlFailures = 3
    /\ result = Err(ErrEmptyBody)

\* C10: when download_with_retry returns an error the destination is absent or
\* empty, and when it returns Ok the destination holds the whole archive.
Cx_C10_NoPartialContent ==
    /\ (caller = "get_version_dir" /\ pc = "idle" /\ h.dl = "Err")
          => FilesOf(h.fsEnd, destination) = {}
    /\ (caller = "get_version_dir" /\ h.dl = "Ok")
          => \A n \in SafeNames(Unwrap(h.body)) : Complete(fs, destination, n)

\* the archive whose first entry leaves the destination
EvilArchive == ZipBody(<<EvilEntry, DirEntry>>)

\* C11: extract_zip writes nothing outside the destination: an entry whose path
\* leaves the destination is skipped without an error and the entries after it are
\* extracted.
Th_C11_NoPathTraversal ==
    /\ \A dir \in DOMAIN fs : EvilEntry.name \notin DOMAIN fs[dir]
    /\ caller = "direct"
          => /\ DOMAIN fs \subseteq DOMAIN h.fs0 \cup {destination}
             /\ \A dir \in DOMAIN h.fs0 \ {destination} :
                   dir \in DOMAIN fs /\ fs[dir] = h.fs0[dir]
             /\ LET x == extract_zip(fs, destination, EvilArchive, NoFault)
                IN  /\ x.err = NoErr
                    /\ Complete(x.fs, destination, DirEntry.name)
                    /\ EvilEntry.name \notin DOMAIN x.fs[destination]
                    /\ \A dir \in DOMAIN fs \ {destination} :
                          dir \in DOMAIN x.fs /\ x.fs[dir] = fs[dir]

Wit_C11_NoPathTraversal ==
    /\ caller = "direct" /\ pc = "idle" /\ h.dl = "Ok"
    /\ h.body = Some(EvilArchive)
    /\ Complete(fs, destination, DirEntry.name)
    /\ DOMAIN fs # {destination}

\* C12: when the binary never appears after a download and extraction that
\* succeeded, get_version_dir returns the 'binary not found after extraction' error,
\* the version directory is removed, the cache is unchanged and no other directory
\* is pruned.
Th_C12_PollingTimeout ==
    (Returned /\ h.dl = "Ok" /\ ~has_content)
    => /\ result = Err(ErrNotFoundAfterExtraction(config))
       /\ version_dir \notin DOMAIN h.fsEnd
       /\ cached_version_dir = h.cache0
       /\ \A n \in DOMAIN h.fs0 \ {version_dir} :
             n \in DOMAIN h.fsEnd /\ h.fsEnd[n] = h.fs0[n]

Wit_C12_PollingTimeout ==
    /\ Returned /\ h.dl = "Ok" /\ ~has_content
    /\ poll_count = max_polls
    /\ DOMAIN h.fs0 \ {version_dir} # {}
    /\ result.kind = "Err"

\* C13: after an install of version B that succeeded while a directory of version A
\* existed, the directory of A is gone and the directory of B is the only one whose
\* name starts with the prefix and a dash.
Th_C13_PruningAfterInstall ==
    (Returned /\ result.kind = "Ok" /\ h.dl = "Ok")
    => /\ version_dir \in DOMAIN h.fsEnd
       /\ \A n \in DOMAIN h.fsEnd :
             StartsWith(n, config.prefix \o Dash) => n = version_dir

Wit_C13_PruningAfterInstall ==
    /\ Returned /\ result.kind = "Ok" /\ h.dl = "Ok"
    /\ VersionDirName(config, V10) \in DOMAIN h.fs0
    /\ version_dir = VersionDirName(config, V9)
    /\ VersionDirName(config, V10) \notin DOMAIN h.fsEnd

\* C14: after every call that returns Ok the working directory holds at most one
\* directory whose name starts with the prefix and a dash: the one returned.
Cx_C14_OneVersionAfterOk ==
    (Returned /\ result.kind = "Ok")
    => \A n \in DOMAIN h.fsEnd :
          StartsWith(n, config.prefix \o Dash) => result.path = Cwd \o Slash \o n

\* C15: one invocation of get_version_dir sets the installation status at most twice.
Cx_C15_AtMostTwoStatuses ==
    caller = "get_version_dir" => Len(h.statuses) <= 2

\* C16: a call that was given a language-server id and returns an error after it
\* reported a status has reported a failed status last.
Cx_C16_FailedStatusLast ==
    (Returned /\ language_server_id /\ result.kind = "Err" /\ Len(h.statuses) >= 1)
    => h.statuses[Len(h.statuses)] = "Failed"

\* C18: when the chosen version directory exists with its binary, the call returns
\* Ok with the absolute path of the directory, the cache holds exactly that path,
\* status None is reported, and there is no HTTP fetch, no platform or URL
\* resolution and no creation or deletion of a directory.
Th_C18_ValidExistingInstall ==
    (Returned /\ Queried /\ version_dir \in DOMAIN h.fs0
       /\ BinaryFile(config) \in DOMAIN h.fs0[version_dir])
    => /\ result = Ok(Cwd \o Slash \o version_dir)
       /\ cached_version_dir = Some(result.path)
       /\ language_server_id => h.statuses = <<"CheckingForUpdate", "None">>
       /\ h.fetches = 0
       /\ h.resolved = {}
       /\ h.queries = 1
       /\ h.created = {} /\ h.removed = {}
       /\ h.fsEnd = h.fs0

Wit_C18_ValidExistingInstall ==
    /\ Returned /\ Queried /\ version_dir \in DOMAIN h.fs0
    /\ github_version # None /\ language_server_id
    /\ result.kind = "Ok" /\ h.fetches = 0

\* C19: every Ok(path) that get_version_dir(config, _) returns names a directory of
\* that config's prefix, also after calls with another config.
Cx_C19_PathOfThisConfig ==
    (Returned /\ result.kind = "Ok")
    => StartsWith(Resolve(result.path), config.prefix \o Dash)

\* C17: every invocation of get_version_dir terminates; download_with_retry makes
\* one HTTP fetch per attempt and at most max_retries attempts, so that one
\* invocation makes at most 3 fetches and starts no second download cycle.
Th_C17_TerminatesWithinThreeFetches ==
    /\ [](caller = "get_version_dir"
            => /\ h.fetches = attempt
               /\ attempt <= max_retries
               /\ h.fetches <= 3)
    /\ [][(pc # "idle" /\ h.dl # "none") => h'.fetches = h.fetches]_vars
    /\ [](pc # "idle" => <>(pc = "idle"))

Wit_C17_TerminatesWithinThreeFetches ==
    /\ Returned /\ h.fetches = 3 /\ attempt = 3
    /\ result.kind = "Err"

\* What a BinaryManager whose cache is empty does in one call of get_version_dir, as
\* a function of the filesystem f, the config c, the architecture a, the
\* language-server id ls and the answers of the environment: the result, the
\* filesystem it leaves and the statuses it reports.  NoOutcome when an answer that
\* the call needs is missing.
NoOutcome == [result |-> NoResult, fs |-> <<>>, statuses |-> <<>>]
Outcome(r, f, st) == [result |-> r, fs |-> f, statuses |-> st]

RECURSIVE FreshRetry(_, _, _, _, _)
FreshRetry(f, dest, a, n, ds) ==
    IF a >= n THEN [fs |-> f, end |-> "err", err |-> ErrRetriesExhausted]
    ELSE IF ds = <<>> THEN [fs |-> f, end |-> "missing", err |-> NoErr]
    ELSE LET s == DownloadAttemptStep(f, dest, a + 1, n, Head(ds).resp, Head(ds).fault)
         IN  IF s.end = "continue"
             THEN FreshRetry(s.fs, dest, a + 1, n, Tail(ds))
             ELSE [fs |-> s.fs, end |-> s.end, err |-> s.err]

FreshInstall(f, c, a, st, dir, in) ==
    IF ~get_platform_string(c, a) THEN Outcome(Err(ErrPlatform), f, st)
    ELSE IF in.url = {} THEN NoOutcome
    ELSE LET st1 == st \o <<"Downloading">>
             f1 == CreateDirAll(f, dir)
             u == Unwrap(in.url)
             r == FreshRetry(f1, dir, 0, InstallAttempts, in.ds)
             exists == IsFile(r.fs, get_binary_path(c, dir))
             p == PollLoop(BinaryCheck(exists, Unwrap(in.delay), 0), 0, exists,
                           Unwrap(in.delay))
         IN  IF ~get_download_url(c, u[1], u[2])
             THEN Outcome(Err(ErrDownloadUrl), f1, st1)
             ELSE IF r.end = "missing" THEN NoOutcome
             ELSE IF r.end = "err" THEN Outcome(Err(r.err), r.fs, st1)
             ELSE IF in.delay = {} THEN NoOutcome
             ELSE IF ~p.has_content
             THEN Outcome(Err(ErrNotFoundAfterExtraction(c)),
                          RemoveFailedInstall(r.fs, dir), st1)
             ELSE Outcome(Ok(normalize_path_to_absolute(dir)),
                          RemoveOldVersions(r.fs, c, dir), st1 \o <<"None">>)

FreshCall(f, c, a, in) ==
    IF in.rel = {} THEN NoOutcome
    ELSE LET st == <<"CheckingForUpdate">>
             gh == {ReleaseVersion(t) : t \in Unwrap(in.rel)}
             v == SelectVersion(gh, ScanEntries(f, DOMAIN f, c, None))
             dir == VersionDirName(c, Unwrap(v))
         IN  IF v = None THEN Outcome(Err(ErrNoVersion(c)), f, st)
             ELSE IF ValidInstall(f, c, dir)
             THEN Outcome(Ok(normalize_path_to_absolute(dir)), f, st \o <<"None">>)
             ELSE FreshInstall(IF IsDir(f, dir) THEN RemoveIncomplete(f, dir) ELSE f,
                               c, a, st, dir, in)

\* the call began with a cache that names no directory of the filesystem
StaleCache == h.cache0 # None /\ Resolve(Unwrap(h.cache0)) \notin DOMAIN h.fs0

\* C20: a call that finds the cached path gone behaves as a BinaryManager with an
\* empty cache does in the same filesystem and with the same answers of the
\* network: same result, same filesystem effects, same status reports.
Th_C20_StaleCacheAsEmpty ==
    (Returned /\ h.traced /\ (h.cache0 = None \/ StaleCache))
    => Outcome(result, h.fsEnd, h.statuses) = FreshCall(h.fs0, config, arch, h.inputs)

Wit_C20_StaleCacheAsEmpty ==
    /\ Returned /\ h.traced /\ StaleCache
    /\ result.kind = "Ok" /\ h.fetches = 2
    /\ Outcome(result, h.fsEnd, h.statuses) = FreshCall(h.fs0, config, arch, h.inputs)


\* the previous call failed in the URL resolver and nothing touched the working
\* directory since; this call chose the directory that call had created
AfterUrlFailure ==
    /\ calls = 2
    /\ caller = "get_version_dir"
    /\ prev.urlFailed
    /\ prev.untouched
    /\ version_dir \in DOMAIN h.fs0
    /\ h.fs0[version_dir] = EmptyDir

\* claim C22: when the URL resolver fails, the call returns that error, the version
\* directory exists and is empty, no HTTP fetch was made and the cache is as it was;
\* a following call that chooses this directory treats it as incomplete, replaces
\* it, and completes the install when its download succeeds and the binary is seen
Th_C22_UrlResolverFailure ==
    /\ (Returned /\ result = Err(ErrDownloadUrl)) =>
          /\ version_dir \in DOMAIN h.fsEnd
          /\ h.fsEnd[version_dir] = EmptyDir
          /\ h.fetches = 0
          /\ cached_version_dir = h.cache0
    /\ (AfterUrlFailure /\ pc # "check_for_update") => h.corrupt
    /\ (AfterUrlFailure /\ Returned /\ h.dl = "Ok" /\ has_content) =>
          /\ result = Ok(normalize_path_to_absolute(version_dir))
          /\ Complete(h.fsEnd, version_dir, BinaryFile(config))
          /\ cached_version_dir = Some(normalize_path_to_absolute(version_dir))

\* the call after a failure of the URL resolver completed the install in the
\* directory that the failed call had left empty
Wit_C22_UrlResolverFailure ==
    /\ AfterUrlFailure
    /\ Returned
    /\ result.kind = "Ok"
    /\ h.fetches >= 1
    /\ Complete(h.fsEnd, version_dir, BinaryFile(config))

\* the installation status st was reported in this call
Reported(st) == \E i \in DOMAIN h.statuses : h.statuses[i] = st

\* claim C23: in the install path each step is taken only after the steps before it:
\* the platform resolver succeeds, the Downloading status is reported (to a caller
\* that gave a language-server id), the version directory is created, the URL
\* resolver is called, the first HTTP fetch is made; a platform failure leaves no
\* status, no directory, no URL resolution and no fetch, and a URL failure no fetch
Th_C23_InstallStepOrder ==
    caller = "get_version_dir" =>
       /\ Reported("Downloading") => "platform" \in h.resolved
       /\ h.created # {} =>
             /\ "platform" \in h.resolved
             /\ language_server_id => Reported("Downloading")
       /\ "url" \in h.resolved => version_dir \in h.created
       /\ h.fetches >= 1 => "url" \in h.resolved
       /\ (Returned /\ result = Err(ErrPlatform)) =>
             /\ ~Reported("Downloading")
             /\ h.created = {}
             /\ "url" \notin h.resolved
             /\ h.fetches = 0
       /\ (Returned /\ result = Err(ErrDownloadUrl)) => h.fetches = 0

\* the first fetch of an install started by a caller that gave a language-server id
Wit_C23_InstallStepOrder ==
    /\ caller = "get_version_dir"
    /\ language_server_id
    /\ pc = "download_with_retry"
    /\ h.fetches = 1
    /\ Reported("Downloading")
    /\ version_dir \in h.created

\* claim C24: after an extraction failure with attempts remaining the destination
\* was deleted and created again: when the next attempt starts it exists and holds
\* nothing of the earlier attempt
Th_C24_CleanDestinationBeforeRetry ==
    (pc = "download_with_retry" /\ h.last = "extract_failed") =>
       /\ attempt < max_retries
       /\ destination \in DOMAIN fs
       /\ fs[destination] = EmptyDir
       /\ h.cleanups >= 1

\* an attempt is about to start after an extraction that failed on its second
\* entry, in a destination that held files before the call
Wit_C24_CleanDestinationBeforeRetry ==
    /\ pc = "download_with_retry"
    /\ h.last = "extract_failed"
    /\ attempt >= 1
    /\ attempt < max_retries
    /\ h.dest0 # None
    /\ Unwrap(h.dest0) # EmptyDir
    /\ fs[destination] = EmptyDir

\* C25: after the extraction the existence of the binary is checked at most 50
\* times in one call, and the call fails with "binary not found after extraction"
\* exactly when every one of these checks found the binary absent.
Cx_C25_AtMostFiftyChecks ==
    /\ (caller = "get_version_dir" /\ pc = "polled") => h.checks <= 50
    /\ (Returned /\ h.checks >= 1) =>
          (result = Err(ErrNotFoundAfterExtraction(config)) <=> ~has_content)

\* the operation that the error message of a failed extraction names
FailedOperation(e, fault) ==
    IF e.is_dir THEN <<"create", "directory">>
    ELSE IF fault.op = "create" THEN <<"create", "file">>
    ELSE <<"copy", "file">>

\* what extract_zip does with the archive a when its I/O fails as ft says, in the
\* destination dest of the filesystem f
AbortsAtOnce(f, dest, a, ft) ==
    LET x == extract_zip(f, dest, ZipBody(a), ft)
        before == CreateDirAll(f, dest)
    IN  /\ x.err # NoErr
        /\ x.err[Len(x.err)] = a[ft.at].name
        /\ MsgContainsPhrase(x.err, FailedOperation(a[ft.at], ft))
        /\ \A j \in 1..Len(a) :
              /\ (j < ft.at /\ a[j].name \in SafeNames(ZipBody(a))) =>
                    Complete(x.fs, dest, a[j].name)
              /\ j > ft.at =>
                    IF a[j].name \in DOMAIN before[dest]
                    THEN x.fs[dest][a[j].name] = before[dest][a[j].name]
                    ELSE a[j].name \notin DOMAIN x.fs[dest]

\* claim C28: when an I/O operation fails on the entry i of an archive, extract_zip
\* returns an error at once: no entry after i is written, the entries written
\* before i stay, and the error names the entry and the operation
Th_C28_ExtractionAbortsAtOnce ==
    /\ \A dest \in InstallNames, c \in Configs :
          \A a \in Archives(c) :
             \A ft \in FaultsOf(ZipBody(a)) \ {NoFault} : AbortsAtOnce(fs, dest, a, ft)
    /\ (caller = "direct" /\ pc = "idle" /\ h.last = "extract_failed") =>
          /\ result = Err(ErrCopyFile(BinaryFile(config))) =>
                /\ Complete(fs, destination, "lib.dll")
                /\ BinaryFile(config) \in FilesOf(fs, destination)
                /\ ~fs[destination][BinaryFile(config)]
          /\ (result = Err(ErrCreateFile("lib.dll")) /\ h.dest0 \in {None, Some(EmptyDir)}) =>
                FilesOf(fs, destination) = {}

\* download_with_retry returned the error of an extraction whose copy of the second
\* entry failed: the first entry is on disk whole, the second in part
Wit_C28_ExtractionAbortsAtOnce ==
    /\ caller = "direct"
    /\ pc = "idle"
    /\ h.last = "extract_failed"
    /\ result = Err(ErrCopyFile(BinaryFile(config)))
    /\ Complete(fs, destination, "lib.dll")
    /\ ~fs[destination][BinaryFile(config)]

\* a fetch that the transport reports as a success and whose body is empty
EmptyResponse == [ok |-> TRUE, body |-> EmptyBody]

\* a fetch that the transport reports as failed
TransportFailure == [ok |-> FALSE, body |-> EmptyBody]

\* claim C29: a response with an empty body is a failed download with the error
\* "downloaded file is empty" although the transport reported success: no extraction
\* is started, the destination is not touched, and the attempt is retried or its
\* error returned exactly as for a transport failure
Th_C29_EmptyBodyIsFailedDownload ==
    /\ download_file_http(EmptyResponse) = ErrEmptyBody
    /\ \A dest \in InstallNames, n \in 1..MaxRetriesArg, a \in 1..MaxRetriesArg :
          a <= n =>
             LET e == DownloadAttemptStep(fs, dest, a, n, EmptyResponse, NoFault)
                 t == DownloadAttemptStep(fs, dest, a, n, TransportFailure, NoFault)
             IN  /\ e.outcome = "download_failed"
                 /\ e.err = ErrEmptyBody
                 /\ e.fs = fs
                 /\ ~e.cleaned
                 /\ e.end = t.end
                 /\ e.end = IF a < n THEN "continue" ELSE "err"
                 /\ [e EXCEPT !.err = NoErr] = [t EXCEPT !.err = NoErr]
    /\ (caller = "direct" /\ h.dlErr = ErrEmptyBody /\ h.last = "download_failed") =>
          /\ h.body = None
          /\ IF h.cleanups = 0 THEN fs = h.fs0
              ELSE fs[destination] = EmptyDir
          /\ pc = "idle" => result = Err(ErrEmptyBody) /\ attempt = max_retries
          /\ pc # "idle" => attempt < max_retries

\* download_with_retry returned "downloaded file is empty" after its last attempt
\* got an empty body, and left the files of the destination as they were
Wit_C29_EmptyBodyIsFailedDownload ==
    /\ caller = "direct"
    /\ pc = "idle"
    /\ result = Err(ErrEmptyBody)
    /\ h.fetches >= 2
    /\ h.dest0 # None
    /\ Unwrap(h.dest0) # EmptyDir
    /\ fs = h.fs0

\* C21: when the platform resolver fails the call returns an error and has changed
\* nothing on disk: the directories of the working directory are those of the start
\* of the call, no version directory was created or deleted, no HTTP fetch was made.
Cx_C21_PlatformFailureNoDiskChange ==
    (Returned /\ result = Err(ErrPlatform)) =>
       /\ DOMAIN h.fsEnd = DOMAIN h.fs0
       /\ h.created = {}
       /\ h.removed = {}
       /\ h.fetches = 0

\* the binary of the new version was found and passed the header check
BinaryValidated ==
    /\ Returned
    /\ h.checks >= 1
    /\ has_content
    /\ result # Err(ErrInvalidPEHeader(config))

\* C26: a failure of the cleanup of the old versions (the listing of the working
\* directory, the reading of one of its entries, the removal of a sibling) is never
\* propagated: once the binary of the new version is validated the call returns Ok
\* and fills the cache.
Cx_C26_CleanupNeverPropagated ==
    BinaryValidated =>
       /\ result = Ok(normalize_path_to_absolute(version_dir))
       /\ cached_version_dir = Some(normalize_path_to_absolute(version_dir))

\* the text after the prefix and the dash
VersionSuffix(name, c) == SubSeq(name, Len(c.prefix) + 2, Len(name))

\* the local versions as the scan should see them: the directories whose name
\* starts with the prefix and a dash
DashedVersions(f, c) ==
    {VersionSuffix(n, c) : n \in {m \in DOMAIN f : StartsWith(m, c.prefix \o Dash)}}

\* C27: the local scan takes as local versions exactly the directories whose name
\* starts with the prefix and a dash, takes the text after them as the version, and
\* latest_local is the greatest of these versions in string order; a directory whose
\* name starts with the prefix but not with the prefix and a dash is no local version.
Cx_C27_ScanOnlyDashedNames ==
    (caller = "get_version_dir" /\ pc = "check_for_update") =>
       LET vs == DashedVersions(h.fs0, config)
       IN  IF vs = {}
           THEN latest_local_version = None
           ELSE /\ latest_local_version # None
                /\ Unwrap(latest_local_version) \in vs
                /\ \A v \in vs : ~StrGreater(v, Unwrap(latest_local_version))

\* claim C30: in a build with the header check, a binary whose first two bytes are
\* not the signature makes the call fail: the version directory is removed, the
\* cache stays as it was and no other directory is pruned; a binary that is only
\* too small, or shorter than two bytes, or unreadable, does not fail the call for
\* that: it returns Ok when the listing of the cleanup succeeds; a build without the
\* check never fails for the header
Th_C30_InvalidPEHeader ==
    /\ (Returned /\ h.pe # None /\ Unwrap(h.pe).header = "bad") =>
          /\ cfg_windows
          /\ result = Err(ErrInvalidPEHeader(config))
          /\ version_dir \notin DOMAIN h.fsEnd
          /\ cached_version_dir = h.cache0
          /\ \A n \in DOMAIN h.fs0 \ {version_dir} :
                n \in DOMAIN h.fsEnd /\ h.fsEnd[n] = h.fs0[n]
          /\ h.removed = {version_dir}
    /\ (Returned /\ h.pe # None /\ Unwrap(h.pe).header # "bad") =>
          /\ result # Err(ErrInvalidPEHeader(config))
          /\ h.listing = "ok" =>
                /\ result = Ok(normalize_path_to_absolute(version_dir))
                /\ version_dir \in DOMAIN h.fsEnd
    /\ (Returned /\ result = Err(ErrInvalidPEHeader(config))) => cfg_windows

\* the call failed on the header of the binary while an older version was installed
Wit_C30_InvalidPEHeader ==
    /\ Returned
    /\ cfg_windows
    /\ result = Err(ErrInvalidPEHeader(config))
    /\ h.pe = Some([header |-> "bad", small |-> FALSE])
    /\ version_dir \notin DOMAIN h.fsEnd
    /\ VersionDirName(netcoredbg_config, V10) \in DOMAIN h.fsEnd
    /\ config = netcoredbg_config

\* this call downloaded and extracted the tool
Installed == caller = "get_version_dir" /\ h.dl = "Ok"

\* C31: where files have permission bits, every call that returns Ok after an
\* install has marked the binary of the tool executable before it returns.
Cx_C31_BinaryMarkedExecutable ==
    (Returned /\ Installed /\ result.kind = "Ok" /\ os # "Windows") =>
       <<version_dir, BinaryFile(config)>> \in executable

\* claim C33: a call that returns an error leaves cached_version_dir as it was; the
\* cache is written only on the way to an Ok return, and after an Ok return it holds
\* exactly the path that was returned
Th_C33_CacheWrittenOnlyOnOk ==
    caller = "get_version_dir" =>
       /\ pc # "idle" => cached_version_dir = h.cache0
       /\ (Returned /\ result.kind = "Err") => cached_version_dir = h.cache0
       /\ (Returned /\ result.kind = "Ok") => cached_version_dir = Some(result.path)
       /\ (Returned /\ cached_version_dir # h.cache0) => result.kind = "Ok"

\* a call that found its cached directory gone and then failed: the stale path is
\* still in the cache
Wit_C33_CacheWrittenOnlyOnOk ==
    /\ Returned
    /\ result.kind = "Err"
    /\ h.cache0 # None
    /\ cached_version_dir = h.cache0
    /\ h.queries >= 1

\* the working directory as the call has made it so far
CurrentFs == IF pc = "idle" THEN h.fsEnd ELSE fs

\* the binary of the chosen version was looked for after the extraction and found
BinaryFound == Installed /\ h.checks >= 1 /\ has_content

\* claim C34: a directory other than the chosen version directory is removed only
\* after the binary of the chosen version was found in the same call, and is never
\* changed otherwise: a failure of the platform or URL resolver, of the download,
\* of the extraction or of the polling removes no other version
Th_C34_OthersRemovedOnlyAfterBinaryFound ==
    caller = "get_version_dir" =>
       /\ \A n \in DOMAIN h.fs0 \ {version_dir} :
             IF n \in DOMAIN CurrentFs
             THEN CurrentFs[n] = h.fs0[n]
             ELSE BinaryFound /\ pc = "idle"
       /\ h.removed \ {version_dir} # {} => BinaryFound
       /\ (Returned /\ result.kind = "Err"
              /\ result.err \notin {ErrListWorkingDirectory, ErrLoadDirectoryEntry}) =>
             DOMAIN h.fs0 \ {version_dir} \subseteq DOMAIN h.fsEnd

\* a call that failed in the polling while another version was installed: that
\* version is still there, the directory of the failed install is not
Wit_C34_OthersRemovedOnlyAfterBinaryFound ==
    /\ Returned
    /\ result = Err(ErrNotFoundAfterExtraction(config))
    /\ version_dir \notin DOMAIN h.fsEnd
    /\ \E n \in DOMAIN h.fs0 \ {version_dir} :
          StartsWith(n, config.prefix \o Dash) /\ n \in DOMAIN h.fsEnd

\* C35: whenever a call returns Ok(dir), the file that get_binary_path gives for dir
\* exists at the moment of the return: on the cache-hit path as on the paths that
\* validate an existing install or install, whatever changed on disk between calls.
Cx_C35_BinaryExistsOnOk ==
    (Returned /\ result.kind = "Ok") =>
       IsFile(h.fsEnd, get_binary_path(config, result.path))

\* the names of the entries of the archives of the model
EntryNames == {a[i].name : a \in UNION {Archives(c) : c \in Configs}, i \in 1..2}

\* every error message that extract_zip builds (line 59, 64, 74, 103, 108-112, 116,
\* 119), without the text of the I/O error that follows it
ExtractZipErrors ==
    {ErrCreateDestination, ErrOpenZip, ErrReadZipEntry} \cup
    UNION {{ErrCreateDirectory(n), ErrCreateParent(n), ErrCreateFile(n), ErrCopyFile(n)} :
              n \in EntryNames}

\* the bodies that reach extract_zip
ExtractedBodies == {GarbageBody} \cup {ZipBody(a) : a \in UNION {Archives(c) : c \in Configs}}

\* the call returned because the cleanup could not create the destination again
RecreateFailed == result = Err(ErrCreateDirectory(destination))

\* claim C39: every error of extract_zip is classified retryable; an extraction
\* error is therefore returned by the last attempt only, every earlier extraction
\* failure is followed by the cleanup and a retry, download_with_retry returns
\* before its last attempt after an extraction failure only when the cleanup
\* cannot create the destination again, and with max_retries >= 1 the error
\* "download retries exhausted" is never returned
Th_C39_ExtractionErrorsRetryable ==
    /\ \A e \in ExtractZipErrors : is_retryable(e)
    /\ pc = "idle" =>
          \A dest \in InstallNames, body \in ExtractedBodies : \A ft \in FaultsOf(body) :
             /\ extract_zip(fs, dest, body, ft).err \in ExtractZipErrors \cup {NoErr}
             /\ \A n \in {1, MaxRetriesArg} : \A a \in {n - 1, n} \cap (1..n) :
                   LET st == DownloadAttemptStep(fs, dest, a, n,
                                                 [ok |-> TRUE, body |-> body], ft)
                   IN  st.outcome = "extract_failed" =>
                          IF a < n THEN st.end = "continue" /\ st.cleaned
                          ELSE st.end = "err" /\ st.err \in ExtractZipErrors
    /\ (pc = "idle" /\ calls >= 1 /\ h.last = "extract_failed" /\ h.dl = "Err") =>
          IF attempt = max_retries
          THEN /\ result.err \in ExtractZipErrors
               /\ h.cleanups = h.fetches - h.dlFailures - 1
          ELSE /\ RecreateFailed
               /\ destination \notin DOMAIN fs
    /\ (pc = "idle" /\ calls >= 1 /\ h.dl = "Err" /\ attempt < max_retries) =>
          h.last = "extract_failed" /\ RecreateFailed
    /\ (pc = "idle" /\ calls >= 1 /\ caller = "direct" /\ max_retries >= 1) =>
          result # Err(ErrRetriesExhausted)

\* download_with_retry returned an extraction error from its last attempt after
\* it had cleaned up and retried earlier extraction failures
Wit_C39_ExtractionErrorsRetryable ==
    /\ pc = "idle"
    /\ caller = "direct"
    /\ h.last = "extract_failed"
    /\ result = Err(ErrOpenZip)
    /\ max_retries >= 3
    /\ attempt = max_retries
    /\ h.cleanups >= 2

(***************************************************************************)
(* The CsharpExtension (SpecExt).                                          *)
(***************************************************************************)
\* the last two calls were get_vscode_version_dir, and the first of them returned
\* Ok for a version that was installed and valid (csharp.rs line 315-337)
RepeatedAfterValidated ==
    /\ ext.op = "get_vscode_version_dir"
    /\ ext.prev.op = "get_vscode_version_dir"
    /\ ext.prev.result.kind = "Ok"
    /\ ext.prev.via = "validated"

\* C32: when get_vscode_version_dir returned Ok for an already installed and valid
\* version, the call that follows it at once, the filesystem unchanged, returns the
\* identical path and queries the release catalog not at all (a cache hit)
Cx_C32_RepeatedCallIsCacheHit ==
    RepeatedAfterValidated => (ext.result = ext.prev.result /\ ext.queries = 0)

\* C36: get_debugger_path without a user-provided path returns Ok only with the
\* path of the debugger binary (vsdbg), whatever calls of get_roslyn_path,
\* get_razor_path and get_debugger_path came before
Cx_C36_DebuggerPathIsDebugger ==
    (ext.op = "get_debugger_path" /\ ext.user = None /\ ext.result.kind = "Ok") =>
        ext.result.path[2] = DebuggerFile

(***************************************************************************)
(* The debug adapter (SpecDap).                                            *)
(***************************************************************************)
\* get_dap_binary returned a binary for coreclr, and dap_request_kind was asked
\* about the same configuration
SameConfiguration ==
    /\ ext.dap_binary.kind = "Ok"
    /\ ext.dap_kind.adapter = "coreclr"
    /\ ext.dap_kind.config = ext.dap_binary.config

\* C38: for the adapter coreclr, get_dap_binary and dap_request_kind agree: the
\* request of the binary is the kind that dap_request_kind returns, and a
\* configuration that dap_request_kind rejects gets no binary with a request
Cx_C38_RequestKindsAgree ==
    SameConfiguration =>
        (ext.dap_kind.kind = "Ok" /\ ext.dap_binary.request = ext.dap_kind.request)

(***************************************************************************)
(* RazorSupport (SpecRazor).                                               *)
(***************************************************************************)
\* all three Razor components exist in the install
AllRazorComponents == is_razor_available(fs, razor.version_dir)

\* C37: get_razor_components never panics, also when another process deletes a
\* component file between the availability check and the second lookup of the
\* component, and a call returns Some exactly when the three components exist,
\* as long as nothing was deleted since it began
Cx_C37_ComponentsNeverPanic ==
    /\ razor.outcome # "panic"
    /\ (razor.pc = "idle" /\ ~razor.tampered) =>
          /\ razor.outcome = "Some" => AllRazorComponents
          /\ razor.outcome = "None" => ~AllRazorComponents

====
